---- MODULE Spec2Model ----
(***************************************************************************)
(* dependamerge: the Gerrit REST client's retry loop, the GitHub client,    *)
(* the GitHub merge command, the merge manager's requirement check, the    *)
(* Gerrit submit manager, service, comparator and base-path discovery, as  *)
(* state machines.                                                         *)
(*                                                                         *)
(* The specifications share the variables; each drives one component and   *)
(* leaves the others idle:                                                 *)
(*   SpecClient         GerritRestClient._request_with_retry               *)
(*                      (gerrit/client.py)                                 *)
(*   SpecGitHubClient   one call of a GitHubClient method                  *)
(*                      (github_client.py)                                 *)
(*   SpecMerge          the merge command on an automation PR (cli.py)     *)
(*   SpecMergeOverride  the merge command on a human-authored PR, with     *)
(*                      --override                                         *)
(*   SpecMergeLog       the merge command, keeping the log of the calls    *)
(*                      made for each PR                                   *)
(*   SpecMergeManager   AsyncMergeManager._check_merge_requirements        *)
(*                      (merge_manager.py, modelled from the design)       *)
(*   SpecSubmit         GerritSubmitManager (gerrit/submit_manager.py)     *)
(*   SpecClientBackoff  the retry loop with max_attempts large enough for  *)
(*                      the delay to reach max_delay                       *)
(*   SpecRebase         GerritService.rebase_change over the retry loop    *)
(*                      (gerrit/service.py)                                *)
(*   SpecQuery          GerritService._query_changes                       *)
(*   SpecSimilar        GerritService.find_similar_changes                 *)
(*   SpecUrls           discover_base_path and its circuit breaker         *)
(*                      (gerrit/urls.py)                                   *)
(*   SpecAnalysis       GitHubClient._analyze_pr_mergeability              *)
(*   SpecScan           GitHubClient.scan_organization_for_unmergeable_prs *)
(*   SpecApi            the API client's concurrency bound                 *)
(*                      (github_async.py, modelled from the design)        *)
(*   SpecNorm           GerritChangeComparator._normalize_owner, applied   *)
(*                      once and twice (gerrit/comparator.py)              *)
(*   SpecCmp            GerritChangeComparator.compare_gerrit_changes      *)
(*   SpecMergeOrSubmit  a run of either platform: the merge command with   *)
(*                      its call log, or the submit manager                *)
(*   SpecQueryServer    _query_changes against a server with a fixed list  *)
(***************************************************************************)
EXTENDS Integers, Sequences, FiniteSets, TLC

VARIABLES client, gh, sm, ghc, mm, rebase, query, similar, urls, analysis,
          scan, api, norm, cmp

vars == <<client, gh, sm, ghc, mm, rebase, query, similar, urls, analysis,
         scan, api, norm, cmp>>

\* The variables of the components that an action of one component leaves
\* alone.
others_client ==
    <<gh, sm, ghc, mm, rebase, query, similar, urls, analysis, scan, api,
      norm, cmp>>

others_gh ==
    <<client, sm, ghc, mm, rebase, query, similar, urls, analysis, scan,
      api, norm, cmp>>

others_sm ==
    <<client, gh, ghc, mm, rebase, query, similar, urls, analysis, scan,
      api, norm, cmp>>

others_ghc ==
    <<client, gh, sm, mm, rebase, query, similar, urls, analysis, scan,
      api, norm, cmp>>

others_mm ==
    <<client, gh, sm, ghc, rebase, query, similar, urls, analysis, scan,
      api, norm, cmp>>

others_rebase ==
    <<client, gh, sm, ghc, mm, query, similar, urls, analysis, scan, api,
      norm, cmp>>

others_query ==
    <<client, gh, sm, ghc, mm, rebase, similar, urls, analysis, scan, api,
      norm, cmp>>

others_similar ==
    <<client, gh, sm, ghc, mm, rebase, query, urls, analysis, scan, api,
      norm, cmp>>

others_urls ==
    <<client, gh, sm, ghc, mm, rebase, query, similar, analysis, scan, api,
      norm, cmp>>

others_analysis ==
    <<client, gh, sm, ghc, mm, rebase, query, similar, urls, scan, api,
      norm, cmp>>

others_scan ==
    <<client, gh, sm, ghc, mm, rebase, query, similar, urls, analysis, api,
      norm, cmp>>

others_api ==
    <<client, gh, sm, ghc, mm, rebase, query, similar, urls, analysis,
      scan, norm, cmp>>

others_norm ==
    <<client, gh, sm, ghc, mm, rebase, query, similar, urls, analysis,
      scan, api, cmp>>

others_cmp ==
    <<client, gh, sm, ghc, mm, rebase, query, similar, urls, analysis,
      scan, api, norm>>

(***************************************************************************)
(* Bounds of the model.                                                    *)
(***************************************************************************)
MaxAttemptsBound == 3

MaxRetryAttempts == 8

MaxLimit == 201

MaxOffset == 2

MaxOpenChanges == 3

MaxReviews == 3

MaxTasks == 3

MaxConcurrency == 2

MaxOwnerLen == 3

MaxPRNumber == 2

MaxChanges == 2

MaxWorkers == 2

(***************************************************************************)
(* gerrit/client.py: module constants.                                     *)
(***************************************************************************)
\* An exception's text is modelled by the set of lower-cased phrases it
\* contains: the code only ever asks whether a phrase occurs in str(exc).
_TRANSIENT_ERR_SUBSTRINGS ==
    { "timed out", "temporarily unavailable", "temporary failure",
      "connection reset", "connection aborted", "broken pipe",
      "connection refused", "bad gateway", "service unavailable",
      "gateway timeout" }

_RETRYABLE_HTTP_CODES == {429, 500, 502, 503, 504}

None == "None"

\* status_code of an exception that carries none (status_code: int | None = None).
NoStatus == 0

(***************************************************************************)
(* What the server and the network can answer to one HTTP request.         *)
(***************************************************************************)
HttpStatuses == {401, 403, 404, 409, 429, 500, 502, 503, 504}

\* The reason phrase of a status line, lower-cased.
ReasonPhrase(status) ==
    CASE status = 401 -> "unauthorized"
      [] status = 403 -> "forbidden"
      [] status = 404 -> "not found"
      [] status = 409 -> "conflict"
      [] status = 429 -> "too many requests"
      [] status = 500 -> "internal server error"
      [] status = 502 -> "bad gateway"
      [] status = 503 -> "service unavailable"
      [] status = 504 -> "gateway timeout"

StatusDigits(status) ==
    CASE status = 401 -> "401"
      [] status = 403 -> "403"
      [] status = 404 -> "404"
      [] status = 409 -> "409"
      [] status = 429 -> "429"
      [] status = 500 -> "500"
      [] status = 502 -> "502"
      [] status = 503 -> "503"
      [] status = 504 -> "504"

\* A network failure happens while connecting (urllib raises URLError) or
\* while reading the response (the socket's exception propagates as it is).
NetErrors ==
    { [phase |-> "connect", text |-> "connection refused"],
      [phase |-> "connect", text |-> "name or service not known"],
      [phase |-> "read",    text |-> "timed out"],
      [phase |-> "read",    text |-> "incomplete read"] }

\* A response without a Retry-After header, and the seconds a 429 response
\* asks for when it has one.
NoRetryAfter == 0

RetryAfterSeconds == 60

\* The bodies of the 409 responses of the model, as sequences of lines: the
\* empty body (also what is left when the body cannot be read), Gerrit's
\* conflict message, a conflict list followed by other text, and a 409 that
\* reports no conflict.
ConflictBodies ==
    { <<>>,
      <<"The change could not be rebased due to a conflict during merge.", "",
        "merge conflict(s):", "src/a.py", "  src/b.py", "">>,
      <<"Merge Conflict(s):", "src/a.py", "   ", "Please rebase locally.">>,
      <<"Change is already up to date.">> }

WireOk ==
    [kind |-> "ok", status |-> 200, phase |-> None, text |-> None,
     retry_after |-> NoRetryAfter, body |-> <<>>]

WireHttp(s) ==
    [kind |-> "http", status |-> s, phase |-> None, text |-> None,
     retry_after |-> NoRetryAfter, body |-> <<>>]

WireNet(e) ==
    [kind |-> "net", status |-> NoStatus, phase |-> e.phase, text |-> e.text,
     retry_after |-> NoRetryAfter, body |-> <<>>]

WireOutcomes ==
    {WireOk} \cup {WireHttp(s) : s \in HttpStatuses}
             \cup {[WireHttp(429) EXCEPT !.retry_after = RetryAfterSeconds]}
             \cup {[WireHttp(409) EXCEPT !.body = b] : b \in ConflictBodies}
             \cup {WireNet(e) : e \in NetErrors}

\* The request paths of the model, and the status-like digit groups each
\* contains (a change number is any integer).
Paths == {"/changes/12345", "/changes/14031"}

PathDigits(path) == IF path = "/changes/14031" THEN {"403"} ELSE {}

Methods == {"GET", "POST", "PUT", "DELETE"}

(***************************************************************************)
(* gerrit/client.py: exceptions and the results of one request.            *)
(***************************************************************************)
\* response_body is None unless the constructor is given one; a body is the
\* sequence of its lines.
NoBody == <<>>

Returned ==
    [cls |-> "ok", status_code |-> NoStatus, text |-> {}, response_body |-> NoBody]

GerritRestError(status_code, text) ==
    [cls |-> "GerritRestError", status_code |-> status_code, text |-> text,
     response_body |-> NoBody]

GerritAuthError(status_code, text) ==
    [cls |-> "GerritAuthError", status_code |-> status_code, text |-> text,
     response_body |-> NoBody]

GerritNotFoundError(status_code, text) ==
    [cls |-> "GerritNotFoundError", status_code |-> status_code, text |-> text,
     response_body |-> NoBody]

\* An exception that is no GerritRestError (socket.timeout, ...).
OtherException(text) ==
    [cls |-> "Exception", status_code |-> NoStatus, text |-> text,
     response_body |-> NoBody]

_is_transient_error(exc) == exc.text \cap _TRANSIENT_ERR_SUBSTRINGS # {}

\* delay = min(base_delay * 2**attempt, max_delay), before the jitter.
base_delay == 1

max_delay == 30

_calculate_backoff_fixed(attempt) == base_delay

_calculate_backoff(attempt) ==
    LET d == base_delay * (2 ^ attempt) IN IF d < max_delay THEN d ELSE max_delay

\* str(exc) of the exception requests raises inside pygerrit2: the status line
\* (or the network error) and the URL of the request.
PygerritExcText(path, o) ==
    IF o.kind = "http"
    THEN {StatusDigits(o.status), ReasonPhrase(o.status)} \cup PathDigits(path)
    ELSE {o.text} \cup PathDigits(path)

_request_via_pygerrit(path, o) ==
    IF o.kind = "ok" THEN Returned
    ELSE LET exc_str == PygerritExcText(path, o) IN
         IF "401" \in exc_str \/ "unauthorized" \in exc_str
         THEN GerritAuthError(401, exc_str)
         ELSE IF "403" \in exc_str \/ "forbidden" \in exc_str
         THEN GerritAuthError(403, exc_str)
         ELSE IF "404" \in exc_str \/ "not found" \in exc_str
         THEN GerritNotFoundError(404, exc_str)
         ELSE GerritRestError(NoStatus, exc_str)

_request_via_urllib(method, path, o) ==
    CASE o.kind = "ok" -> Returned
      [] o.kind = "http" ->
            IF o.status = 401 \/ o.status = 403
            THEN [GerritAuthError(o.status, {}) EXCEPT !.response_body = o.body]
            ELSE IF o.status = 404
            THEN [GerritNotFoundError(o.status, {}) EXCEPT !.response_body = o.body]
            ELSE [GerritRestError(o.status, {}) EXCEPT !.response_body = o.body]
      [] o.kind = "net" /\ o.phase = "connect" -> GerritRestError(NoStatus, {o.text})
      [] o.kind = "net" /\ o.phase = "read" -> OtherException({o.text})

\* self._client is not None and method == "GET" and data is None
\* (get() never passes data).
_request(has_pygerrit, method, path, o) ==
    IF has_pygerrit /\ method = "GET"
    THEN _request_via_pygerrit(path, o)
    ELSE _request_via_urllib(method, path, o)

(***************************************************************************)
(* GerritRestClient._request_with_retry                                    *)
(***************************************************************************)
ClientIdle ==
    [max_attempts |-> 0, has_pygerrit |-> FALSE, method |-> "GET",
     path |-> "/changes/12345", pc |-> "idle", attempt |-> 0,
     trace |-> <<>>, sleeps |-> <<>>, exc |-> Returned, log_trace |-> FALSE]

ClientInit ==
    /\ client \in
         { [ClientIdle EXCEPT !.max_attempts = m, !.has_pygerrit = p,
                              !.method = md, !.path = pa, !.pc = "request",
                              !.log_trace = TRUE] :
             m \in 0..MaxAttemptsBound, p \in BOOLEAN,
             md \in Methods, pa \in Paths }

\* Long retry sequences: max_attempts is large enough for the delay to reach
\* max_delay, and the responses are not recorded (only the sleeps are).
ClientInitBackoff ==
    /\ client \in
         { [ClientIdle EXCEPT !.max_attempts = m, !.has_pygerrit = p,
                              !.method = md, !.path = pa, !.pc = "request"] :
             m \in 0..MaxRetryAttempts, p \in BOOLEAN,
             md \in Methods, pa \in Paths }

\* What the except clauses of one loop iteration decide for the result r of
\* self._request(...): "return", "retry" (sleep, continue) or "raise".
RetryDecision(r, attempt, max_attempts) ==
    CASE r.cls = "ok" -> "return"
      [] r.cls = "GerritAuthError" -> "raise"
      [] r.cls = "GerritNotFoundError" -> "raise"
      [] r.cls = "GerritRestError" ->
            IF /\ r.status_code # NoStatus
               /\ r.status_code \in _RETRYABLE_HTTP_CODES
               /\ attempt < max_attempts - 1
            THEN "retry" ELSE "raise"
      [] r.cls = "Exception" ->
            IF _is_transient_error(r) /\ attempt < max_attempts - 1
            THEN "retry" ELSE "raise"

\* The exception that leaves _request_with_retry when the decision is "raise".
RaisedException(r) ==
    IF r.cls = "Exception" THEN GerritRestError(NoStatus, r.text) ELSE r

\* One iteration of the for loop: the request and its except clauses.
ClientAttempt ==
    /\ client.pc = "request"
    /\ client.attempt < client.max_attempts
    /\ \E o \in WireOutcomes :
         LET r == _request(client.has_pygerrit, client.method, client.path, o)
             d == RetryDecision(r, client.attempt, client.max_attempts)
         IN client' =
              [client EXCEPT
                 !.trace = IF client.log_trace THEN Append(@, o) ELSE @,
                 !.pc = CASE d = "return" -> "returned"
                          [] d = "retry" -> "backoff"
                          [] d = "raise" -> "raised",
                 !.exc = IF d = "raise" THEN RaisedException(r) ELSE @]
    /\ UNCHANGED others_client

\* time.sleep(delay); continue
ClientBackoff ==
    /\ client.pc = "backoff"
    /\ client' = [client EXCEPT
                    !.sleeps = Append(@, _calculate_backoff(client.attempt)),
                    !.attempt = @ + 1,
                    !.pc = "request"]
    /\ UNCHANGED others_client

\* The loop ended without a return or a raise (max_attempts <= 0).
ClientLoopExit ==
    /\ client.pc = "request"
    /\ client.attempt >= client.max_attempts
    /\ client' = [client EXCEPT !.pc = "raised", !.exc = GerritRestError(NoStatus, {})]
    /\ UNCHANGED others_client

ClientNext == ClientAttempt \/ ClientBackoff \/ ClientLoopExit

(***************************************************************************)
(* github_client.py: the GitHubClient methods the merge command calls.     *)
(* Each takes the environment's answers e to the API requests it makes     *)
(* and gives [ret, called]: what the method returns ("True", "False", or   *)
(* "raise" when an exception leaves it) and whether the mutating request   *)
(* (create_review, merge, update_branch) was sent.                         *)
(***************************************************************************)
Mergeables == {"True", "False", "None"}

MergeableStates == {"clean", "dirty", "blocked", "behind", "draft", "unknown"}

\* The mergeable flag and mergeable_state of a PR, as one API read gives them.
PRStates == [mergeable : Mergeables, mergeable_state : MergeableStates]

\* A PyGithub request succeeds, raises GithubException, or raises something
\* else (requests.exceptions.ConnectionError, ...).
ApiOutcomes == {"ok", "GithubException", "Exception"}

MergeCallOutcomes == {"merged", "not_merged", "GithubException", "Exception"}

ApproveEnv == [read : ApiOutcomes, call : ApiOutcomes]

MergeEnv == [read : ApiOutcomes, live : PRStates, call : MergeCallOutcomes]

FixEnv == [read : ApiOutcomes, live : MergeableStates, call : ApiOutcomes]

ApiResult(ret, called) == [ret |-> ret, called |-> called]

\* try: get_repo, get_pull, create_review; except GithubException: False
approve_pull_request(e) ==
    CASE e.read = "GithubException" -> ApiResult("False", FALSE)
      [] e.read = "Exception" -> ApiResult("raise", FALSE)
      [] e.read = "ok" /\ e.call = "ok" -> ApiResult("True", TRUE)
      [] e.read = "ok" /\ e.call = "GithubException" -> ApiResult("False", TRUE)
      [] e.read = "ok" /\ e.call = "Exception" -> ApiResult("raise", TRUE)

\* Mutant of _should_attempt_merge: the draft exception of the last branch
\* is missing.
_should_attempt_merge_draft(pr) ==
    CASE pr.mergeable = "False" -> pr.mergeable_state = "blocked"
      [] pr.mergeable = "None" -> pr.mergeable_state \in {"clean", "blocked"}
      [] pr.mergeable = "True" -> TRUE

_should_attempt_merge(pr) ==
    CASE pr.mergeable = "False" -> pr.mergeable_state = "blocked"
      [] pr.mergeable = "None" -> pr.mergeable_state \in {"clean", "blocked"}
      [] pr.mergeable = "True" -> pr.mergeable_state # "draft"

merge_pull_request(e) ==
    CASE e.read = "GithubException" -> ApiResult("False", FALSE)
      [] e.read = "Exception" -> ApiResult("raise", FALSE)
      [] e.read = "ok" /\ ~_should_attempt_merge(e.live) -> ApiResult("False", FALSE)
      [] e.read = "ok" /\ _should_attempt_merge(e.live) ->
            CASE e.call = "merged" -> ApiResult("True", TRUE)
              [] e.call = "not_merged" -> ApiResult("False", TRUE)
              [] e.call = "GithubException" -> ApiResult("False", TRUE)
              [] e.call = "Exception" -> ApiResult("raise", TRUE)

fix_out_of_date_pr(e) ==
    CASE e.read = "GithubException" -> ApiResult("False", FALSE)
      [] e.read = "Exception" -> ApiResult("raise", FALSE)
      [] e.read = "ok" /\ e.live # "behind" -> ApiResult("False", FALSE)
      [] e.read = "ok" /\ e.live = "behind" ->
            CASE e.call = "ok" -> ApiResult("True", TRUE)
              [] e.call = "GithubException" -> ApiResult("False", TRUE)
              [] e.call = "Exception" -> ApiResult("raise", TRUE)

\* What each method can give, over all answers of the environment.
ApproveResults == {approve_pull_request(e) : e \in ApproveEnv}

MergeResults == {merge_pull_request(e) : e \in MergeEnv}

FixResults == {fix_out_of_date_pr(e) : e \in FixEnv}

\* One call of a GitHubClient method on a PR, with the answers e of the API.
\* e.read: get_repo/get_pull; e.live: the PR as read; e.call: the mutating
\* request.
GhcEnv == [read : ApiOutcomes, live : PRStates, call : MergeCallOutcomes]

GhcIdle ==
    [pc |-> "idle", method |-> None,
     e |-> [read |-> "ok", live |-> [mergeable |-> "None", mergeable_state |-> "unknown"],
            call |-> "merged"],
     result |-> ApiResult("None", FALSE)]

GhcCalls ==
    ({"merge_pull_request"} \X GhcEnv)
      \cup ({"approve_pull_request", "fix_out_of_date_pr"}
              \X {e \in GhcEnv : e.call \in ApiOutcomes})

GhcInit ==
    ghc \in { [GhcIdle EXCEPT !.pc = "call", !.method = c[1], !.e = c[2]] :
                c \in GhcCalls }

GhcReturn(result) ==
    /\ ghc' = [ghc EXCEPT !.pc = "returned", !.result = result]
    /\ UNCHANGED others_ghc

GhcApprove ==
    /\ ghc.pc = "call"
    /\ ghc.method = "approve_pull_request"
    /\ GhcReturn(approve_pull_request([read |-> ghc.e.read, call |-> ghc.e.call]))

GhcMerge ==
    /\ ghc.pc = "call"
    /\ ghc.method = "merge_pull_request"
    /\ GhcReturn(merge_pull_request(ghc.e))

GhcFix ==
    /\ ghc.pc = "call"
    /\ ghc.method = "fix_out_of_date_pr"
    /\ GhcReturn(fix_out_of_date_pr([read |-> ghc.e.read,
                                     live |-> ghc.e.live.mergeable_state,
                                     call |-> ghc.e.call]))

GhcNext == GhcApprove \/ GhcMerge \/ GhcFix

(***************************************************************************)
(* cli.py: the merge command.                                              *)
(***************************************************************************)
MAX_RETRIES == 2

Repos == <<"org/a", "org/b">>

PRNumbers == 1..MaxPRNumber

PR(repo, number) == [repo |-> repo, number |-> number]

NoPRInfo == [mergeable |-> "None", mergeable_state |-> "unknown"]

GhIdle ==
    [pc |-> "idle", dry_run |-> FALSE, fix |-> FALSE, source |-> PR(Repos[1], 1),
     repo_idx |-> 1, all_similar_prs |-> <<>>, phase |-> "none", idx |-> 0,
     step |-> "none", pr_info |-> NoPRInfo, attempt |-> 0,
     ops_called |-> {}, source_ops |-> {}, similar_failure |-> "none",
     source_attempted |-> FALSE, author |-> "dependabot[bot]", override |-> None,
     log_calls |-> FALSE, pr_calls |-> <<>>]

\* GitHubClient.is_automation_author
is_automation_author(author) ==
    author \in {"dependabot[bot]", "pre-commit-ci[bot]", "renovate[bot]",
                "github-actions[bot]", "allcontributors[bot]"}

Authors == {"dependabot[bot]", "alice"}

\* commit_messages[0].split("\n")[0], or "" when the PR has no commits.
FirstCommitLines == {"", "bump requests", " bump requests "}

\* str.strip() on the first commit lines.
strip(line) ==
    CASE line = " bump requests " -> "bump requests"
      [] line = "  src/b.py" -> "src/b.py"
      [] line = "   " -> ""
      [] OTHER -> line

\* sha256(f"{author}:{line.strip()}").hexdigest()[:16]; the digest is kept
\* symbolic, distinct inputs giving distinct digests.
_generate_override_sha(author, commit_message_first_line) ==
    "sha256[:16](" \o author \o ":" \o strip(commit_message_first_line) \o ")"

\* Mutant of _validate_override_sha: any value given is accepted.
_validate_any_sha(provided_sha, author, commit_message_first_line) == TRUE

_validate_override_sha(provided_sha, author, commit_message_first_line) ==
    provided_sha = _generate_override_sha(author, commit_message_first_line)

\* Values of --override: not given, empty, and digests of PRs.
Overrides ==
    {None, ""} \cup {_generate_override_sha(a, "bump requests") : a \in {"alice", "bob"}}

\* `not override`
NoOverride(override) == override \in {None, ""}

\* The command lines: the PR of pr_url, --dry-run and --fix, with the PR's
\* author and --override taken from author_override.
GhRuns(author_override) ==
    { [GhIdle EXCEPT !.pc = "start", !.dry_run = d, !.fix = f,
                     !.source = PR(Repos[r], n),
                     !.author = ao[1], !.override = ao[2]] :
        d \in BOOLEAN, f \in BOOLEAN, r \in 1..Len(Repos), n \in PRNumbers,
        ao \in author_override }

\* Runs on the PR of an automation account, without --override.
GhInit == gh \in GhRuns({a \in Authors : is_automation_author(a)} \X {None})

\* Runs on the PR of a human author, with every value of --override.
GhInitOverride ==
    gh \in GhRuns({a \in Authors : ~is_automation_author(a)} \X Overrides)

\* Runs that merge (no --dry-run) from the first PR of the first repository,
\* with the log of the calls made for each PR kept in pr_calls.
GhInitLog ==
    gh \in { [g EXCEPT !.log_calls = TRUE] :
               g \in { x \in GhRuns({a \in Authors : is_automation_author(a)} \X {None}) :
                         ~x.dry_run /\ x.source = PR(Repos[1], 1) } }

\* Mutant of matching_prs_in_repo: the source PR is not skipped.
matching_prs_keeps_source(repo, candidates, source) ==
    LET keep[n \in 0..MaxPRNumber] ==
          IF n = 0 THEN <<>>
          ELSE IF n \in candidates
               THEN Append(keep[n - 1], PR(repo, n))
               ELSE keep[n - 1]
    IN keep[MaxPRNumber]

\* The PRs of one repository that the scan loop keeps, in listing order:
\* `candidates` are the numbers of the open PRs that pass the author filter
\* and that the comparator reports similar; the source PR itself is skipped.
matching_prs_in_repo(repo, candidates, source) ==
    LET keep[n \in 0..MaxPRNumber] ==
          IF n = 0 THEN <<>>
          ELSE IF n \in candidates /\ ~(n = source.number /\ repo = source.repo)
               THEN Append(keep[n - 1], PR(repo, n))
               ELSE keep[n - 1]
    IN keep[MaxPRNumber]

\* The PR that the merge loop (or the final source step) is working on.
CurrentPR(g) ==
    IF g.phase = "similar" THEN g.all_similar_prs[g.idx] ELSE g.source

\* The client method `op` was called for the current PR and gave r (history):
\* pr_calls lists the calls made for the current PR (when log_calls is set),
\* ops_called and source_ops the mutating requests that were sent.
Called(g, op, r) ==
    LET h == [g EXCEPT !.pr_calls =
                          IF g.log_calls
                          THEN Append(@, [op |-> op, sent |-> r.called, ret |-> r.ret])
                          ELSE @]
    IN IF r.called
       THEN [h EXCEPT !.ops_called = @ \cup {op},
                      !.source_ops = IF CurrentPR(g) = g.source THEN @ \cup {op} ELSE @]
       ELSE h

\* An exception reached merge()'s except clause: typer.Exit(1).
Abort(g) ==
    [g EXCEPT !.pc = "exit1",
              !.similar_failure = IF g.phase = "similar" THEN "client_error" ELSE @]

\* _merge_single_pr returned for the current PR with `result`; the for loop
\* goes on to the next similar PR, then to the source PR, then the run ends.
ItemDone(g, result) ==
    LET h == [g EXCEPT !.similar_failure =
                          IF g.phase = "similar" /\ result # "merged" THEN result ELSE @,
                       !.step = "prefix", !.attempt = 0, !.pr_info = NoPRInfo]
    IN IF g.phase = "similar"
       THEN IF g.idx < Len(g.all_similar_prs)
            THEN [h EXCEPT !.idx = @ + 1]
            ELSE [h EXCEPT !.phase = "source", !.idx = 0]
       ELSE [h EXCEPT !.pc = "done", !.step = "none"]

\* The check of the source PR's author: "return" (no override given),
\* "exit1" (wrong override) or "proceed".
override_gate(author, override, first_commit_line) ==
    IF is_automation_author(author) THEN "proceed"
    ELSE IF NoOverride(override) THEN "return"
    ELSE IF ~_validate_override_sha(override, author, first_commit_line) THEN "exit1"
    ELSE "proceed"

\* Source PR details, the author check, and the organization's repository
\* list; a failure to fetch ends the command with exit status 1.
GhStart ==
    /\ gh.pc = "start"
    /\ \E ok \in BOOLEAN, line \in FirstCommitLines :
         LET gate == override_gate(gh.author, gh.override, line) IN
         gh' = [gh EXCEPT !.pc = CASE ~ok -> "exit1"
                                   [] ok /\ gate = "return" -> "done"
                                   [] ok /\ gate = "exit1" -> "exit1"
                                   [] ok /\ gate = "proceed" -> "scan"]
    /\ UNCHANGED others_gh

\* One iteration of `for repo_index, repository in enumerate(repositories)`.
GhScanRepository ==
    /\ gh.pc = "scan"
    /\ gh.repo_idx <= Len(Repos)
    /\ \E failed \in BOOLEAN, candidates \in SUBSET PRNumbers :
         gh' = [gh EXCEPT
                  !.repo_idx = @ + 1,
                  !.all_similar_prs =
                      IF failed THEN @
                      ELSE @ \o matching_prs_in_repo(Repos[gh.repo_idx],
                                                     candidates, gh.source)]
    /\ UNCHANGED others_gh

\* Mutant of dry_run_return: the flag is not looked at.
dry_run_ignored(dry_run) == FALSE

\* `if dry_run: return`, else the merge loop starts.
dry_run_return(dry_run) == dry_run

GhAfterScan ==
    /\ gh.pc = "scan"
    /\ gh.repo_idx > Len(Repos)
    /\ gh' = IF dry_run_return(gh.dry_run)
             THEN [gh EXCEPT !.pc = "done"]
             ELSE IF Len(gh.all_similar_prs) >= 1
             THEN [gh EXCEPT !.pc = "merging", !.phase = "similar", !.idx = 1,
                             !.step = "prefix"]
             ELSE [gh EXCEPT !.pc = "merging", !.phase = "source",
                             !.step = "prefix"]
    /\ UNCHANGED others_gh

\* `if fix and pr.mergeable_state == "behind": fix_out_of_date_pr(...)` before
\* _merge_single_pr, for a similar PR and for the source PR. pr_info is the
\* PullRequestInfo built when the PR was read.
GhPreFix ==
    /\ gh.pc = "merging"
    /\ gh.step = "prefix"
    /\ \E info \in PRStates :
         LET g == [gh EXCEPT !.pr_info = info, !.step = "single", !.pr_calls = <<>>] IN
         IF gh.fix /\ info.mergeable_state = "behind"
         THEN \E r \in FixResults :
                LET h == Called(g, "update_branch", r)
                IN gh' = IF r.ret = "raise" THEN Abort(h) ELSE h
         ELSE gh' = g
    /\ UNCHANGED others_gh

\* The first branch of _merge_single_pr: "Skipping unmergeable PR".
SkipUnmergeable(pr_info) ==
    /\ ~(pr_info.mergeable_state = "blocked" /\ pr_info.mergeable = "True")
    /\ ~(pr_info.mergeable_state = "blocked" /\ pr_info.mergeable = "False")
    /\ pr_info.mergeable # "True"

GhSingleStart ==
    /\ gh.pc = "merging"
    /\ gh.step = "single"
    /\ LET g == [gh EXCEPT !.source_attempted = @ \/ gh.phase = "source"] IN
       gh' = IF SkipUnmergeable(gh.pr_info)
             THEN ItemDone(g, "unmergeable")
             ELSE [g EXCEPT !.step = "approve"]
    /\ UNCHANGED others_gh

\* Mutant of GhApprove: the result of approve_pull_request is not looked at.
GhApproveUnchecked ==
    /\ gh.pc = "merging"
    /\ gh.step = "approve"
    /\ \E r \in ApproveResults :
         LET g == Called(gh, "approve", r)
         IN gh' = CASE r.ret = "raise" -> Abort(g)
                    [] OTHER -> [g EXCEPT !.step = "merge", !.attempt = 0]
    /\ UNCHANGED others_gh

GhApprove ==
    /\ gh.pc = "merging"
    /\ gh.step = "approve"
    /\ \E r \in ApproveResults :
         LET g == Called(gh, "approve", r)
         IN gh' = CASE r.ret = "raise" -> Abort(g)
                    [] r.ret = "False" -> ItemDone(g, "approve_failed")
                    [] r.ret = "True" -> [g EXCEPT !.step = "merge", !.attempt = 0]
    /\ UNCHANGED others_gh

\* Mutant of can_retry: one more iteration.
can_retry_once_more(attempt) == attempt <= MAX_RETRIES

\* `for attempt in range(MAX_RETRIES + 1)` with `if attempt < MAX_RETRIES:`:
\* after a failed merge at iteration `attempt` another iteration may follow.
can_retry(attempt) == attempt < MAX_RETRIES

\* One iteration of `for attempt in range(MAX_RETRIES + 1)` up to the refresh.
GhMergeAttempt ==
    /\ gh.pc = "merging"
    /\ gh.step = "merge"
    /\ \E r \in MergeResults :
         LET g == Called(gh, "merge", r)
         IN gh' = CASE r.ret = "raise" -> Abort(g)
                    [] r.ret = "True" -> ItemDone(g, "merged")
                    [] r.ret = "False" ->
                         IF /\ can_retry(gh.attempt)
                            /\ gh.pr_info.mergeable_state \in {"behind", "unknown"}
                         THEN [g EXCEPT !.step = "refresh"]
                         ELSE ItemDone(g, "merge_failed")
    /\ UNCHANGED others_gh

\* The try block after a failed merge: refresh the PR, update its branch when
\* it is behind, and decide should_retry. Every exception is caught there.
GhRetryRefresh ==
    /\ gh.pc = "merging"
    /\ gh.step = "refresh"
    /\ \E refreshed \in BOOLEAN, updated \in PRStates :
         LET retry == [gh EXCEPT !.pr_info = updated, !.attempt = @ + 1,
                                 !.step = "merge"]
         IN IF ~refreshed
            THEN gh' = ItemDone(gh, "merge_failed")
            ELSE IF updated.mergeable_state = "behind"
            THEN \E r \in FixResults :
                 gh' = IF r.ret = "True"
                       THEN Called(retry, "update_branch", r)
                       ELSE ItemDone(Called(gh, "update_branch", r),
                                     "merge_failed")
            ELSE IF updated.mergeable_state # gh.pr_info.mergeable_state
            THEN gh' = retry
            ELSE gh' = ItemDone(gh, "merge_failed")
    /\ UNCHANGED others_gh

MergeNext ==
    \/ GhStart
    \/ GhScanRepository
    \/ GhAfterScan
    \/ GhPreFix
    \/ GhSingleStart
    \/ GhApprove
    \/ GhMergeAttempt
    \/ GhRetryRefresh

(***************************************************************************)
(* gerrit/submit_manager.py: GerritSubmitManager.                          *)
(***************************************************************************)
ChangeNumbers == {101, 102}

GerritChangeStatus == {"NEW", "MERGED", "ABANDONED"}

\* The GerritChangeInfo values of the model.
GerritChanges ==
    [number : ChangeNumbers, status : GerritChangeStatus, work_in_progress : BOOLEAN]

is_open(change) == change.status = "NEW"

\* self._client.post(...) returns, or raises one of the client's exceptions
\* once its retry loop has ended.
PostOutcomes == {"ok", "GerritAuthError", "GerritNotFoundError", "GerritRestError"}

\* _review_change and _submit_change: True if the POST returned, False on
\* GerritRestError (GerritAuthError and GerritNotFoundError are subclasses).
_review_change(outcome) == outcome = "ok"

_submit_change(outcome) == outcome = "ok"

NoResult ==
    [change_number |-> 0, success |-> FALSE, reviewed |-> FALSE,
     submitted |-> FALSE, error |-> "pending"]

\* Mutant of success_result: the reviewed flag is left at its default.
success_result_not_reviewed(change_number, reviewed, submitted) ==
    [change_number |-> change_number, success |-> TRUE, reviewed |-> FALSE,
     submitted |-> submitted, error |-> None]

success_result(change_number, reviewed, submitted) ==
    [change_number |-> change_number, success |-> TRUE, reviewed |-> reviewed,
     submitted |-> submitted, error |-> None]

\* Mutant of failure_result: the change is not identified, as in the generic
\* failure of submit_changes_parallel (change_number=0, project="unknown").
failure_result_unknown(change_number, error, reviewed) ==
    [change_number |-> 0, success |-> FALSE, reviewed |-> reviewed,
     submitted |-> FALSE, error |-> error]

failure_result(change_number, error, reviewed) ==
    [change_number |-> change_number, success |-> FALSE, reviewed |-> reviewed,
     submitted |-> FALSE, error |-> error]

\* One call of _submit_single_change (or one iteration of review_only's
\* loop): where it stands, the POSTs it sent, whether one of them raised
\* GerritAuthError, and its result.
NewTask ==
    [pc |-> "queued", reviewed |-> FALSE, review_posts |-> 0, submit_posts |-> 0,
     auth_failed |-> FALSE, result |-> NoResult]

\* The task after a POST that gave `outcome`.
Posted(t, outcome) == [t EXCEPT !.auth_failed = @ \/ outcome = "GerritAuthError"]

SmIdle ==
    [pc |-> "idle", mode |-> "submit_changes", dry_run |-> FALSE, max_workers |-> 1,
     changes |-> <<>>, tasks |-> <<>>, results |-> <<>>]

Modes == {"submit_changes", "submit_changes_parallel", "review_only"}

ChangeLists == UNION {[1..n -> GerritChanges] : n \in 0..MaxChanges}

\* The call: the method, its `changes` and dry_run, and the manager's max_workers.
SmInit ==
    sm \in { [SmIdle EXCEPT !.pc = "running", !.mode = m, !.dry_run = d,
                            !.max_workers = IF m = "submit_changes_parallel"
                                            THEN MaxWorkers ELSE 1,
                            !.changes = cs,
                            !.tasks = [i \in 1..Len(cs) |-> NewTask]] :
               m \in Modes, d \in BOOLEAN, cs \in ChangeLists }

TaskRunning(t) == t.pc \in {"review", "submit"}

Running == {i \in 1..Len(sm.tasks) : TaskRunning(sm.tasks[i])}

\* submit_changes and review_only take the changes one after the other; the
\* executor hands the queued calls to its max_workers threads in order.
CanStart(i) ==
    /\ sm.pc = "running"
    /\ i \in 1..Len(sm.tasks)
    /\ sm.tasks[i].pc = "queued"
    /\ \A j \in 1..(i - 1) : sm.tasks[j].pc # "queued"
    /\ Cardinality(Running) < sm.max_workers

Finished(t, result) == [t EXCEPT !.pc = "done", !.result = result]

\* Mutant of preflight_error: the Work In Progress check is missing.
preflight_without_wip(change) ==
    IF ~is_open(change) THEN "Change is not open" ELSE None

\* The checks of _submit_single_change before its dry-run branch.
preflight_error(change) ==
    IF ~is_open(change) THEN "Change is not open"
    ELSE IF change.work_in_progress THEN "Change is marked as Work In Progress"
    ELSE None

\* Mutant of submit_dry_run: the dry-run branch is never taken.
submit_dry_run_ignored(dry_run) == FALSE

\* `if dry_run:` of _submit_single_change.
submit_dry_run(dry_run) == dry_run

\* `if dry_run:` of review_only.
review_only_dry_run(dry_run) == dry_run

\* _submit_single_change up to its first POST.
SmStartSubmit(i) ==
    /\ sm.mode # "review_only"
    /\ CanStart(i)
    /\ LET c == sm.changes[i]
           t == sm.tasks[i]
       IN sm' = [sm EXCEPT !.tasks[i] =
                   IF preflight_error(c) # None
                   THEN Finished(t, failure_result(c.number, preflight_error(c), FALSE))
                   ELSE IF submit_dry_run(sm.dry_run)
                   THEN Finished(t, success_result(c.number, TRUE, TRUE))
                   ELSE [t EXCEPT !.pc = "review"]]
    /\ UNCHANGED others_sm

\* Step 1: Apply review (vote).
SmReview(i) ==
    /\ sm.pc = "running"
    /\ i \in 1..Len(sm.tasks)
    /\ sm.tasks[i].pc = "review"
    /\ \E outcome \in PostOutcomes :
         LET c == sm.changes[i]
             t == Posted([sm.tasks[i] EXCEPT !.review_posts = @ + 1], outcome)
         IN sm' = [sm EXCEPT !.tasks[i] =
                     IF _review_change(outcome)
                     THEN [t EXCEPT !.reviewed = TRUE, !.pc = "submit"]
                     ELSE Finished(t, failure_result(c.number,
                                                     "Failed to apply review", FALSE))]
    /\ UNCHANGED others_sm

\* Step 2: Submit the change.
SmSubmit(i) ==
    /\ sm.pc = "running"
    /\ i \in 1..Len(sm.tasks)
    /\ sm.tasks[i].pc = "submit"
    /\ \E outcome \in PostOutcomes :
         LET c == sm.changes[i]
             t == Posted([sm.tasks[i] EXCEPT !.submit_posts = @ + 1], outcome)
         IN sm' = [sm EXCEPT !.tasks[i] =
                     IF _submit_change(outcome)
                     THEN Finished(t, success_result(c.number, t.reviewed, TRUE))
                     ELSE Finished(t, failure_result(c.number, "Failed to submit",
                                                     t.reviewed))]
    /\ UNCHANGED others_sm

\* One iteration of review_only's loop.
SmReviewOnly(i) ==
    /\ sm.mode = "review_only"
    /\ CanStart(i)
    /\ \E outcome \in PostOutcomes :
         LET c == sm.changes[i]
             t == sm.tasks[i]
         IN sm' = [sm EXCEPT !.tasks[i] =
                     IF review_only_dry_run(sm.dry_run)
                     THEN Finished(t, success_result(c.number, TRUE, FALSE))
                     ELSE IF _review_change(outcome)
                     THEN Finished([t EXCEPT !.review_posts = @ + 1, !.reviewed = TRUE],
                                   success_result(c.number, TRUE, FALSE))
                     ELSE Finished(Posted([t EXCEPT !.review_posts = @ + 1], outcome),
                                   failure_result(c.number, "Failed to apply review",
                                                  FALSE))]
    /\ UNCHANGED others_sm

\* `return results`: every call has ended; the results are in input order.
SmReturn ==
    /\ sm.pc = "running"
    /\ \A i \in 1..Len(sm.tasks) : sm.tasks[i].pc = "done"
    /\ sm' = [sm EXCEPT !.pc = "returned",
                        !.results = [i \in 1..Len(sm.tasks) |-> sm.tasks[i].result]]
    /\ UNCHANGED others_sm

SubmitNext ==
    \/ \E i \in 1..MaxChanges : SmStartSubmit(i)
    \/ \E i \in 1..MaxChanges : SmReview(i)
    \/ \E i \in 1..MaxChanges : SmSubmit(i)
    \/ \E i \in 1..MaxChanges : SmReviewOnly(i)
    \/ SmReturn

(***************************************************************************)
(* merge_manager.py: AsyncMergeManager._check_merge_requirements, the      *)
(* requirement check of the merge orchestrator, with its force levels.     *)
(***************************************************************************)
ForceLevels == <<"none", "code_owners", "protection_rules", "all">>

\* The position of a force level in none < code_owners < protection_rules < all.
ForceRank(force) == CHOOSE k \in 1..Len(ForceLevels) : ForceLevels[k] = force

\* What the check reads of a change: its draft flag, an unresolved "changes
\* requested" review, merge conflict, behind base, and what branch protection
\* and the status checks say.
ChangeStates ==
    [draft : BOOLEAN, changes_requested : BOOLEAN, dirty : BOOLEAN,
     behind : BOOLEAN, code_owner_required : BOOLEAN,
     protection_required : BOOLEAN, failing_checks : BOOLEAN]

CheckResult(can_proceed, reason) == [can_proceed |-> can_proceed, reason |-> reason]

\* Mutant of _check_merge_requirements: the code-owner requirement is
\* bypassed at force = code_owners only, not at the levels above it.
_check_merge_requirements_exact(change, force, fix_out_of_date) ==
    CASE change.draft -> CheckResult(FALSE, "draft")
      [] OTHER ->
    CASE change.changes_requested /\ force # "all" ->
            CheckResult(FALSE, "reviews requesting changes")
      [] OTHER ->
    CASE change.dirty /\ force # "all" -> CheckResult(FALSE, "merge conflicts")
      [] OTHER ->
    CASE change.behind /\ ~fix_out_of_date /\ force # "all" ->
            CheckResult(FALSE, "behind base branch")
      [] OTHER ->
    CASE change.code_owner_required /\ force # "code_owners" ->
            CheckResult(FALSE, "code owner reviews are required")
      [] OTHER ->
    CASE change.protection_required /\ ForceRank(force) < ForceRank("protection_rules") ->
            CheckResult(FALSE, "branch protection requirements")
      [] OTHER ->
    CASE change.failing_checks /\ force # "all" ->
            CheckResult(FALSE, "failing status checks")
      [] OTHER -> CheckResult(TRUE, "ok")

\* _check_merge_requirements(change) -> (can_proceed, reason), for the
\* manager's force level and fix_out_of_date setting.
_check_merge_requirements(change, force, fix_out_of_date) ==
    CASE change.draft -> CheckResult(FALSE, "draft")
      [] OTHER ->
    CASE change.changes_requested /\ force # "all" ->
            CheckResult(FALSE, "reviews requesting changes")
      [] OTHER ->
    CASE change.dirty /\ force # "all" -> CheckResult(FALSE, "merge conflicts")
      [] OTHER ->
    CASE change.behind /\ ~fix_out_of_date /\ force # "all" ->
            CheckResult(FALSE, "behind base branch")
      [] OTHER ->
    CASE change.code_owner_required /\ ForceRank(force) < ForceRank("code_owners") ->
            CheckResult(FALSE, "code owner reviews are required")
      [] OTHER ->
    CASE change.protection_required /\ ForceRank(force) < ForceRank("protection_rules") ->
            CheckResult(FALSE, "branch protection requirements")
      [] OTHER ->
    CASE change.failing_checks /\ force # "all" ->
            CheckResult(FALSE, "failing status checks")
      [] OTHER -> CheckResult(TRUE, "ok")

\* One change state checked by managers of every force level in turn:
\* results[k] is the answer at ForceLevels[k].
MmIdle ==
    [pc |-> "idle", fix_out_of_date |-> FALSE,
     change |-> [draft |-> FALSE, changes_requested |-> FALSE, dirty |-> FALSE,
                 behind |-> FALSE, code_owner_required |-> FALSE,
                 protection_required |-> FALSE, failing_checks |-> FALSE],
     results |-> <<>>]

MmInit ==
    mm \in { [MmIdle EXCEPT !.pc = "checking", !.fix_out_of_date = f, !.change = c] :
               f \in BOOLEAN, c \in ChangeStates }

MmCheck ==
    /\ mm.pc = "checking"
    /\ Len(mm.results) < Len(ForceLevels)
    /\ mm' = [mm EXCEPT !.results =
                 Append(@, _check_merge_requirements(
                               mm.change, ForceLevels[Len(mm.results) + 1],
                               mm.fix_out_of_date))]
    /\ UNCHANGED others_mm

MmDone ==
    /\ mm.pc = "checking"
    /\ Len(mm.results) = Len(ForceLevels)
    /\ mm' = [mm EXCEPT !.pc = "done"]
    /\ UNCHANGED others_mm

MmNext == MmCheck \/ MmDone

(***************************************************************************)
(* gerrit/service.py: GerritService.rebase_change                          *)
(***************************************************************************)
\* "merge conflict" in line.lower(), for the lines of the model's bodies.
has_merge_conflict_marker(line) ==
    line \in {"merge conflict(s):", "Merge Conflict(s):"}

\* response_body.strip().splitlines(): the blank lines at both ends go.
RECURSIVE strip_body(_)
strip_body(lines) ==
    IF lines = <<>> THEN <<>>
    ELSE IF strip(Head(lines)) = "" THEN strip_body(Tail(lines))
    ELSE IF strip(lines[Len(lines)]) = "" THEN strip_body(SubSeq(lines, 1, Len(lines) - 1))
    ELSE lines

\* The for loop of _parse_conflict_files over the remaining lines.
RECURSIVE parse_lines(_, _, _)
parse_lines(lines, in_conflict_section, files) ==
    IF lines = <<>> THEN files
    ELSE LET line == strip(Head(lines)) IN
         IF line = ""
         THEN IF in_conflict_section THEN files
              ELSE parse_lines(Tail(lines), in_conflict_section, files)
         ELSE IF has_merge_conflict_marker(line)
         THEN parse_lines(Tail(lines), TRUE, files)
         ELSE IF in_conflict_section
         THEN parse_lines(Tail(lines), TRUE, Append(files, line))
         ELSE parse_lines(Tail(lines), FALSE, files)

\* Mutant of _parse_conflict_files: nothing is parsed.
_parse_no_conflict_files(response_body) == <<>>

_parse_conflict_files(response_body) ==
    IF response_body = NoBody THEN <<>>
    ELSE parse_lines(strip_body(response_body), FALSE, <<>>)

RebaseEndpoint == "/changes/12345/rebase"

NoRebaseResult ==
    [success |-> FALSE, conflict |-> FALSE, conflicting_files |-> <<>>,
     error |-> None, returned |-> FALSE]

\* The dict rebase_change returns for the outcome exc of self._client.post.
rebase_result(exc) ==
    IF exc.cls = "ok"
    THEN [success |-> TRUE, conflict |-> FALSE, conflicting_files |-> <<>>,
          error |-> None, returned |-> TRUE]
    ELSE IF exc.status_code = 409
    THEN [success |-> FALSE, conflict |-> TRUE,
          conflicting_files |-> _parse_conflict_files(exc.response_body),
          error |-> IF exc.response_body # NoBody THEN "response_body"
                    ELSE "Merge conflict during rebase",
          returned |-> TRUE]
    ELSE [success |-> FALSE, conflict |-> FALSE, conflicting_files |-> <<>>,
          error |-> "str(exc)", returned |-> TRUE]

RebaseIdle == [pc |-> "idle", result |-> NoRebaseResult]

\* rebase_change(change_number) of a service whose client was built with
\* max_attempts and with or without pygerrit2: self._client.post(endpoint).
RebaseInit ==
    /\ rebase = [RebaseIdle EXCEPT !.pc = "post"]
    /\ client \in
         { [ClientIdle EXCEPT !.max_attempts = m, !.has_pygerrit = p,
                              !.method = "POST", !.path = RebaseEndpoint,
                              !.pc = "request", !.log_trace = TRUE] :
             m \in 0..MaxAttemptsBound, p \in BOOLEAN }

\* post() returned or raised: the try/except of rebase_change. Every
\* exception that leaves _request_with_retry is a GerritRestError.
RebaseReturn ==
    /\ rebase.pc = "post"
    /\ client.pc \in {"returned", "raised"}
    /\ rebase' = [pc |-> "done", result |-> rebase_result(client.exc)]
    /\ UNCHANGED others_rebase

RebaseNext == ClientNext \/ RebaseReturn

(***************************************************************************)
(* gerrit/service.py: GerritService._query_changes                         *)
(***************************************************************************)
MAX_PAGE_SIZE == 100

Min(a, b) == IF a < b THEN a ELSE b

\* What self._client.get(endpoint) gives for a request of n changes: it
\* raises GerritRestError, returns something that is no list, or returns a
\* list of `received` items of which `malformed` cannot be parsed. A server
\* may send one item more than it was asked for.
QueryResponses(n) ==
    { [kind |-> k, received |-> 0, malformed |-> 0] : k \in {"raise", "not_list"} }
    \cup { [kind |-> "list", received |-> x[1], malformed |-> x[2]] :
              x \in { y \in (0..(n + 1)) \X {0, 1} : y[2] <= y[1] } }

\* No item of the server's list is malformed.
NoBad == 0

\* A server that keeps to the query: it holds a list of N matching changes,
\* numbered 1..N in its order, of which the one at position `bad` cannot be
\* parsed, and answers every request.
Servers(sizes, bads) ==
    { [fixed |-> TRUE, N |-> n, bad |-> b] : n \in sizes, b \in bads }

AnyServer == [fixed |-> FALSE, N |-> 0, bad |-> NoBad]

\* GET /changes/?q=...&n=<n>&S=<S>: the changes S+1 .. S+n of the list, or
\* those that are left of them.
ServerResponse(server, n, S) ==
    LET left == IF server.N > S THEN server.N - S ELSE 0
        received == Min(n, left)
    IN [kind |-> "list", received |-> received,
        malformed |-> IF server.bad \in (S + 1)..(S + received) THEN 1 ELSE 0]

QueryIdle ==
    [pc |-> "idle", limit |-> 0, offset |-> 0, server |-> AnyServer,
     all_changes |-> 0, current_offset |-> 0, requests |-> <<>>, returned |-> 0]

\* _query_changes(query, limit, offset=0, options); all_changes is kept as
\* its length.
QueryInit ==
    query \in { [QueryIdle EXCEPT !.pc = "loop", !.limit = l] : l \in 0..MaxLimit }

\* The limits and list sizes around the page size and around two pages.
AroundPages(last) ==
    (0..2) \cup ((MAX_PAGE_SIZE - 1)..(MAX_PAGE_SIZE + 1))
           \cup ((2 * MAX_PAGE_SIZE - 1)..last)

\* _query_changes(query, limit, offset, options) against a server that keeps
\* to the query.
QueryServerInit ==
    query \in { [QueryIdle EXCEPT !.pc = "loop", !.limit = l, !.offset = o,
                                  !.current_offset = o, !.server = sv] :
                l \in AroundPages(MaxLimit), o \in 0..MaxOffset,
                sv \in Servers(AroundPages(MaxLimit + 2),
                               {NoBad, 1, MAX_PAGE_SIZE, MAX_PAGE_SIZE + 1}) }

\* Mutant of page_is_short: every page ends the loop.
page_always_short(len_page_changes, current_limit) == TRUE

\* Mutant of page_is_short: a short page does not end the loop.
page_never_short(len_page_changes, current_limit) == FALSE

\* if len(page_changes) < current_limit: break
page_is_short(len_page_changes, current_limit) == len_page_changes < current_limit

\* One iteration of the while loop: the request and what follows it.
QueryPage ==
    /\ query.pc = "loop"
    /\ query.all_changes < query.limit
    /\ LET page_size == Min(query.limit, MAX_PAGE_SIZE)
           remaining == query.limit - query.all_changes
           current_limit == Min(page_size, remaining)
       IN \E resp \in IF query.server.fixed
                     THEN {ServerResponse(query.server, current_limit,
                                          query.current_offset)}
                     ELSE QueryResponses(current_limit) :
            LET len_page_changes == resp.received - resp.malformed
                sent == Append(query.requests,
                               [n |-> current_limit, S |-> query.current_offset,
                                kind |-> resp.kind, received |-> resp.received,
                                parsed |-> len_page_changes])
            IN query' =
                 IF resp.kind # "list" \/ resp.received = 0
                 THEN [query EXCEPT !.requests = sent, !.pc = "return"]
                 ELSE IF page_is_short(len_page_changes, current_limit)
                 THEN [query EXCEPT !.requests = sent, !.pc = "return",
                                    !.all_changes = @ + len_page_changes]
                 ELSE [query EXCEPT !.requests = sent,
                                    !.all_changes = @ + len_page_changes,
                                    !.current_offset = @ + len_page_changes]
    /\ UNCHANGED others_query

\* return all_changes[:limit]
QueryReturn ==
    /\ \/ query.pc = "return"
       \/ query.pc = "loop" /\ query.all_changes >= query.limit
    /\ query' = [query EXCEPT !.pc = "done",
                              !.returned = Min(query.all_changes, query.limit)]
    /\ UNCHANGED others_query

QueryNext == QueryPage \/ QueryReturn

(***************************************************************************)
(* gerrit/service.py: GerritService.find_similar_changes                   *)
(***************************************************************************)
\* What the comparison of the source with one change gives: an exception, or
\* a GerritComparisonResult (confidence_score in hundredths).
ComparisonOutcomes ==
    { [raised |-> TRUE, is_similar |-> FALSE, confidence_score |-> 0],
      [raised |-> FALSE, is_similar |-> FALSE, confidence_score |-> 0],
      [raised |-> FALSE, is_similar |-> TRUE, confidence_score |-> 80],
      [raised |-> FALSE, is_similar |-> TRUE, confidence_score |-> 100] }

\* The lists get_all_open_changes can return, as change numbers.
OpenChangeLists ==
    UNION { [1..n -> ChangeNumbers] : n \in 0..MaxOpenChanges }

\* list.sort(key=confidence_score, reverse=True) is stable: an element goes
\* behind the elements whose score is at least its own.
RECURSIVE insert_by_score(_, _)
insert_by_score(sorted, x) ==
    IF sorted = <<>> THEN <<x>>
    ELSE IF Head(sorted).result.confidence_score >= x.result.confidence_score
    THEN <<Head(sorted)>> \o insert_by_score(Tail(sorted), x)
    ELSE <<x>> \o sorted

RECURSIVE sort_by_score(_)
sort_by_score(pairs) ==
    IF pairs = <<>> THEN <<>>
    ELSE insert_by_score(sort_by_score(SubSeq(pairs, 1, Len(pairs) - 1)),
                         pairs[Len(pairs)])

SimilarIdle ==
    [pc |-> "idle", source_change |-> 101, all_changes |-> <<>>, idx |-> 0,
     compared |-> <<>>, similar_changes |-> <<>>]

\* find_similar_changes(source_change, comparator) after
\* all_changes = self.get_all_open_changes(limit=limit).
SimilarInit ==
    similar \in { [SimilarIdle EXCEPT !.pc = "loop", !.source_change = src,
                                      !.all_changes = l, !.idx = 1] :
                    src \in ChangeNumbers, l \in OpenChangeLists }

\* Mutant of is_source_change: the source change is not recognised.
is_never_source_change(change, source_change) == FALSE

\* if change.number == source_change.number: continue
is_source_change(change, source_change) == change = source_change

\* One iteration of the loop over all_changes.
SimilarCompare ==
    /\ similar.pc = "loop"
    /\ similar.idx <= Len(similar.all_changes)
    /\ LET change == similar.all_changes[similar.idx] IN
       IF is_source_change(change, similar.source_change)
       THEN similar' = [similar EXCEPT !.idx = @ + 1]
       ELSE \E result \in ComparisonOutcomes :
              similar' =
                [similar EXCEPT
                   !.idx = @ + 1,
                   !.compared = Append(@, [change |-> change, result |-> result]),
                   !.similar_changes =
                       IF ~result.raised /\ result.is_similar
                       THEN Append(@, [change |-> change, result |-> result])
                       ELSE @]
    /\ UNCHANGED others_similar

\* similar_changes.sort(...); return similar_changes
SimilarReturn ==
    /\ similar.pc = "loop"
    /\ similar.idx > Len(similar.all_changes)
    /\ similar' = [similar EXCEPT
                     !.pc = "done",
                     !.similar_changes = sort_by_score(@)]
    /\ UNCHANGED others_similar

SimilarNext == SimilarCompare \/ SimilarReturn

(***************************************************************************)
(* gerrit/urls.py: discover_base_path and its circuit breaker, for one     *)
(* host. Times are in seconds.                                             *)
(***************************************************************************)
_CIRCUIT_BREAKER_THRESHOLD == 3

_CIRCUIT_BREAKER_RESET_SECONDS == 300

\* The defaults of discover_base_path(host, timeout=5.0, max_total_time=15.0).
timeout == 5

max_total_time == 15

\* for scheme in ("https", "http"): for probe in ["/dashboard/self", "/"]
probes ==
    << [scheme |-> "https", probe |-> "/dashboard/self"],
       [scheme |-> "https", probe |-> "/"],
       [scheme |-> "http", probe |-> "/dashboard/self"],
       [scheme |-> "http", probe |-> "/"] >>

\* The threads that call discover_base_path for the host.
Callers == {"t1", "t2"}

\* What opener.open(url) does: answers 200, answers a redirect with or
\* without a Location header, answers another status (possibly as HTTPError),
\* fails in the network (URLError, OSError), or raises something else.
ProbeOutcomes ==
    {"200", "redirect", "redirect_no_location", "http_error", "network_error",
     "other_exception"}

NoCache == "<none>"

NoCall == [pc |-> "idle", idx |-> 1, elapsed |-> 0, network_failures |-> 0,
           sent |-> 0, result |-> NoCache]

\* _BASE_PATH_CACHE and _CIRCUIT_BREAKER for the host (in_breaker: the host
\* has an entry; since_last_failure = now - last_failure_time), and the
\* calls in progress. cache_from tells which statement wrote the cache last:
\* the handling of an answered probe, or the default after the loops.
UrlsIdle ==
    [cache |-> NoCache, cache_from |-> "none", in_breaker |-> FALSE, failure_count |-> 0,
     since_last_failure |-> 0, calls |-> [c \in Callers |-> NoCall]]

\* A fresh process: nothing is cached and no failure is recorded.
UrlsInit == urls = UrlsIdle

\* The entry (in_breaker, failure_count, since_last_failure) after
\* _check_circuit_breaker(host), and what it returns.
_check_circuit_breaker(u) ==
    IF ~u.in_breaker THEN [u |-> u, open |-> FALSE]
    ELSE IF u.since_last_failure >= _CIRCUIT_BREAKER_RESET_SECONDS
    THEN [u |-> [u EXCEPT !.in_breaker = FALSE, !.failure_count = 0,
                          !.since_last_failure = 0],
          open |-> FALSE]
    ELSE [u |-> u, open |-> u.failure_count >= _CIRCUIT_BREAKER_THRESHOLD]

_record_circuit_breaker_failure(u) ==
    IF u.in_breaker
    THEN [u EXCEPT !.failure_count =
                       (IF u.since_last_failure >= _CIRCUIT_BREAKER_RESET_SECONDS
                        THEN 0 ELSE @) + 1,
                   !.since_last_failure = 0]
    ELSE [u EXCEPT !.in_breaker = TRUE, !.failure_count = 1,
                   !.since_last_failure = 0]

_reset_circuit_breaker(u) ==
    [u EXCEPT !.in_breaker = FALSE, !.failure_count = 0, !.since_last_failure = 0]

\* The start of discover_base_path: the cache, then the circuit breaker.
UrlsCallStart(c) ==
    /\ urls.calls[c].pc = "idle"
    /\ IF urls.cache # NoCache
       THEN urls' = [urls EXCEPT !.calls[c].pc = "returned",
                                 !.calls[c].result = urls.cache]
       ELSE LET chk == _check_circuit_breaker(urls) IN
            IF chk.open
            THEN urls' = [chk.u EXCEPT !.calls[c].pc = "returned",
                                       !.calls[c].result = ""]
            ELSE urls' = [chk.u EXCEPT !.calls[c].pc = "probing"]
    /\ UNCHANGED others_urls

\* One iteration of the probe loops: the time budget, the request and the
\* handling of its outcome. The circuit breaker is not consulted here.
UrlsProbe(c) ==
    /\ urls.calls[c].pc = "probing"
    /\ urls.calls[c].idx <= Len(probes)
    /\ LET call == urls.calls[c] IN
       IF call.elapsed >= max_total_time
       THEN \* break: on to the first probe of the next scheme
            urls' = [urls EXCEPT !.calls[c].idx = IF call.idx <= 2 THEN 3 ELSE 5]
       ELSE \E o \in ProbeOutcomes :
              LET sent == [call EXCEPT !.sent = @ + 1, !.idx = @ + 1] IN
              CASE o = "200" ->
                     urls' = [_reset_circuit_breaker(urls) EXCEPT
                                !.cache = "", !.cache_from = "probe",
                                !.calls[c] = [sent EXCEPT !.pc = "returned",
                                                          !.result = ""]]
                [] o = "redirect" ->
                     urls' = [_reset_circuit_breaker(urls) EXCEPT
                                !.cache = "infra", !.cache_from = "probe",
                                !.calls[c] = [sent EXCEPT !.pc = "returned",
                                                          !.result = "infra"]]
                [] o \in {"redirect_no_location", "http_error"} ->
                     urls' = [_reset_circuit_breaker(urls) EXCEPT !.calls[c] = sent]
                [] o = "network_error" ->
                     urls' = [_record_circuit_breaker_failure(urls) EXCEPT
                                !.calls[c] = [sent EXCEPT !.network_failures = @ + 1]]
                [] o = "other_exception" ->
                     urls' = [urls EXCEPT !.calls[c] = sent]
    /\ UNCHANGED others_urls

\* The loops are over: the default is cached and returned.
UrlsCallEnd(c) ==
    /\ urls.calls[c].pc = "probing"
    /\ urls.calls[c].idx > Len(probes)
    /\ urls' = [urls EXCEPT !.cache = "", !.cache_from = "default",
                            !.calls[c].pc = "returned",
                            !.calls[c].result = ""]
    /\ UNCHANGED others_urls

\* The thread is free for its next call.
UrlsCallReturn(c) ==
    /\ urls.calls[c].pc = "returned"
    /\ urls' = [urls EXCEPT !.calls[c] = NoCall]
    /\ UNCHANGED others_urls

\* Time passes: the time a request takes at most (timeout) while a call is
\* within its budget, or a pause as long as the reset time.
UrlsTick ==
    /\ \E d \in {timeout, _CIRCUIT_BREAKER_RESET_SECONDS} :
         /\ d = timeout =>
               \E c \in Callers : /\ urls.calls[c].pc = "probing"
                                   /\ urls.calls[c].elapsed < max_total_time
         /\ d = _CIRCUIT_BREAKER_RESET_SECONDS =>
               urls.in_breaker
               /\ urls.since_last_failure < _CIRCUIT_BREAKER_RESET_SECONDS
         /\ urls' =
              [urls EXCEPT
                 !.since_last_failure =
                     IF urls.in_breaker
                     THEN Min(@ + d, _CIRCUIT_BREAKER_RESET_SECONDS) ELSE @,
                 !.calls = [c \in Callers |->
                              IF urls.calls[c].pc = "probing"
                              THEN [urls.calls[c] EXCEPT
                                      !.elapsed = Min(@ + d, max_total_time)]
                              ELSE urls.calls[c]]]
    /\ UNCHANGED others_urls

UrlsNext ==
    \/ \E c \in Callers : UrlsCallStart(c)
    \/ \E c \in Callers : UrlsProbe(c)
    \/ \E c \in Callers : UrlsCallEnd(c)
    \/ \E c \in Callers : UrlsCallReturn(c)
    \/ UrlsTick

(***************************************************************************)
(* github_client.py: GitHubClient._analyze_pr_mergeability                 *)
(***************************************************************************)
Reviewers == {"alice", "bob"}

ReviewStates == {"APPROVED", "CHANGES_REQUESTED", "COMMENTED", "DISMISSED"}

\* list(pr.get_reviews()): the reviews in the order they were submitted.
ReviewLists ==
    UNION { [1..n -> [user : Reviewers, state : ReviewStates]] : n \in 0..MaxReviews }

\* What _get_failing_status_checks returns (it swallows its exceptions).
FailingChecks == { <<>>, <<"ci/test">> }

AnalyzedPRs ==
    [draft : BOOLEAN, mergeable : Mergeables, mergeable_state : {"clean", "dirty", "behind"},
     failing_checks : FailingChecks, reviews_raise : BOOLEAN, reviews : ReviewLists]

\* True when a review's state is CHANGES_REQUESTED; an exception of
\* pr.get_reviews() gives False.
_has_blocking_reviews(pr) ==
    IF pr.reviews_raise THEN FALSE
    ELSE \E i \in 1..Len(pr.reviews) : pr.reviews[i].state = "CHANGES_REQUESTED"

\* The types of the reasons, in the order they are appended ("needs_approval"
\* is filtered out and never appended).
_analyze_pr_mergeability(pr) ==
    (IF pr.draft THEN <<"draft">> ELSE <<>>)
    \o (IF pr.mergeable = "False" /\ pr.mergeable_state = "dirty"
        THEN <<"merge_conflict">>
        ELSE IF pr.mergeable = "False" /\ pr.mergeable_state = "behind"
        THEN <<"behind_base">> ELSE <<>>)
    \o (IF pr.failing_checks # <<>> THEN <<"failing_checks">> ELSE <<>>)
    \o (IF _has_blocking_reviews(pr) THEN <<"blocked_review">> ELSE <<>>)

AnalysisIdle ==
    [pc |-> "idle",
     pr |-> [draft |-> FALSE, mergeable |-> "None", mergeable_state |-> "clean",
             failing_checks |-> <<>>, reviews_raise |-> FALSE, reviews |-> <<>>],
     reasons |-> <<>>, unmergeable_prs |-> <<>>]

AnalysisInit ==
    analysis \in { [AnalysisIdle EXCEPT !.pc = "analyze", !.pr = pr] : pr \in AnalyzedPRs }

AnalysisRun ==
    /\ analysis.pc = "analyze"
    /\ analysis' = [analysis EXCEPT !.pc = "done",
                                    !.reasons = _analyze_pr_mergeability(analysis.pr)]
    /\ UNCHANGED others_analysis

\* _scan_repository_for_unmergeable_prs after the analysis of the PR:
\* if unmergeable_reasons: ... unmergeable_prs.append(unmergeable_pr)
AnalysisAppend ==
    /\ analysis.pc = "done"
    /\ analysis' = [analysis EXCEPT
                      !.pc = "scanned",
                      !.unmergeable_prs =
                          IF analysis.reasons # <<>>
                          THEN Append(@, [reasons |-> analysis.reasons])
                          ELSE @]
    /\ UNCHANGED others_analysis

AnalysisNext == AnalysisRun \/ AnalysisAppend

(***************************************************************************)
(* github_client.py: GitHubClient.scan_organization_for_unmergeable_prs    *)
(***************************************************************************)
\* What happens to one open PR in _scan_repository_for_unmergeable_prs: it
\* has no reason against merging, it has some, its data lacks user, title or
\* html_url (a malformed response), or its analysis raises (an API error).
PRScanOutcomes == {"mergeable", "unmergeable", "incomplete", "analysis_error"}

\* What the API does while one repository is scanned: the open PRs the first
\* listing yields and how each fares, whether that listing then raises, and
\* whether the second listing (the count) raises.
RepoScanOutcomes ==
    [prs : UNION { [1..n -> PRScanOutcomes] : n \in 0..MaxPRNumber },
     listing_raises : BOOLEAN, count_raises : BOOLEAN]

RECURSIVE count_unmergeable(_)
count_unmergeable(prs) ==
    IF prs = <<>> THEN 0
    ELSE (IF Head(prs) = "unmergeable" THEN 1 ELSE 0) + count_unmergeable(Tail(prs))

\* len(self._scan_repository_for_unmergeable_prs(repo)): every exception is
\* handled inside, silently.
_scan_repository_for_unmergeable_prs(o) == count_unmergeable(o.prs)

\* The scan of the repository met an API error or a malformed response.
hit_api_error(o) ==
    \/ o.listing_raises
    \/ o.count_raises
    \/ \E i \in 1..Len(o.prs) : o.prs[i] \in {"incomplete", "analysis_error"}

ScanIdle ==
    [pc |-> "idle", repositories |-> <<>>, total_repositories |-> 0, idx |-> 1,
     visited |-> <<>>, scanned_repositories |-> 0, total_prs |-> 0,
     unmergeable_prs |-> 0, errors |-> <<>>, hit_error |-> {}]

ScanInit == scan = [ScanIdle EXCEPT !.pc = "start"]

\* get_organization and list(org.get_repos()): the listing, or an exception.
ScanStart ==
    /\ scan.pc = "start"
    /\ \/ \E n \in 0..Len(Repos) :
            scan' = [scan EXCEPT !.pc = "loop",
                                 !.repositories = SubSeq(Repos, 1, n),
                                 !.total_repositories = n]
       \/ scan' = [scan EXCEPT !.pc = "done",
                               !.errors = Append(@, "organization")]
    /\ UNCHANGED others_scan

\* Mutant of next_after_error: an error ends the loop.
stop_after_error(idx, total) == total + 1

\* except Exception: errors.append(...); continue
next_after_error(idx, total) == idx + 1

\* One iteration of the loop over the repositories.
ScanRepository ==
    /\ scan.pc = "loop"
    /\ scan.idx <= Len(scan.repositories)
    /\ \E o \in RepoScanOutcomes :
         LET repo == scan.repositories[scan.idx]
             seen == [scan EXCEPT
                        !.visited = Append(@, repo),
                        !.scanned_repositories = @ + 1,
                        !.unmergeable_prs = @ + _scan_repository_for_unmergeable_prs(o),
                        !.hit_error = IF hit_api_error(o) THEN @ \cup {repo} ELSE @]
         IN scan' =
              IF o.count_raises
              THEN [seen EXCEPT !.errors = Append(@, repo),
                                !.idx = next_after_error(scan.idx, Len(scan.repositories))]
              ELSE [seen EXCEPT !.total_prs = @ + Len(o.prs),
                                !.idx = @ + 1]
    /\ UNCHANGED others_scan

\* return OrganizationScanResult(...)
ScanReturn ==
    /\ scan.pc = "loop"
    /\ scan.idx > Len(scan.repositories)
    /\ scan' = [scan EXCEPT !.pc = "done"]
    /\ UNCHANGED others_scan

ScanNext == ScanStart \/ ScanRepository \/ ScanReturn

(***************************************************************************)
(* The rate-limited API client (GitHubAsync): its concurrency bound. Each  *)
(* task issues one call; a call is a sequence of requests (the first       *)
(* attempt and its retries), each sent while holding one permit of the     *)
(* client's counting semaphore.                                            *)
(***************************************************************************)
Tasks == 1..MaxTasks

ApiIdle ==
    [max_concurrency |-> 1, permits |-> 1,
     tasks |-> [t \in Tasks |-> [pc |-> "idle", attempt |-> 0]]]

\* GitHubAsync(token, max_concurrency=n): the semaphore starts with n permits
\* and the tasks are about to call.
ApiInit ==
    api \in { [ApiIdle EXCEPT !.max_concurrency = n, !.permits = n,
                              !.tasks = [t \in Tasks |-> [pc |-> "waiting", attempt |-> 0]]] :
                n \in 1..MaxConcurrency }

\* Mutant of can_acquire: the semaphore never blocks.
can_always_acquire(permits) == TRUE

\* A counting semaphore is acquired only while a permit is left.
can_acquire(permits) == permits > 0

\* The task acquires a permit and sends its request.
ApiSend(t) ==
    /\ api.tasks[t].pc = "waiting"
    /\ can_acquire(api.permits)
    /\ api' = [api EXCEPT !.permits = @ - 1, !.tasks[t].pc = "in_flight"]
    /\ UNCHANGED others_api

\* The response (or a network error) arrives and the permit is released: the
\* call returns or raises, or a retryable failure sends the task back for
\* another attempt while attempts are left.
ApiReceive(t) ==
    /\ api.tasks[t].pc = "in_flight"
    /\ \E retry \in BOOLEAN :
         /\ retry => api.tasks[t].attempt < MaxAttemptsBound - 1
         /\ api' = [api EXCEPT
                      !.permits = @ + 1,
                      !.tasks[t] = IF retry
                                   THEN [pc |-> "waiting", attempt |-> @.attempt + 1]
                                   ELSE [@ EXCEPT !.pc = "done"]]
    /\ UNCHANGED others_api

ApiNext == \E t \in Tasks : ApiSend(t) \/ ApiReceive(t)

(***************************************************************************)
(* gerrit/comparator.py: GerritChangeComparator._normalize_owner. An owner *)
(* string is the sequence of its pieces: names, blanks and bot suffixes.   *)
(***************************************************************************)
OwnerPieces == {"dependabot", "Alice", "alice", " ", "[bot]", "-bot", "_bot", ".bot"}

OwnerStrings ==
    UNION { [1..n -> OwnerPieces \ {"alice"}] : n \in 0..MaxOwnerLen }

\* str.lower()
lower(owner) ==
    [i \in 1..Len(owner) |-> IF owner[i] = "Alice" THEN "alice" ELSE owner[i]]

\* str.strip(): the blanks at both ends go.
RECURSIVE strip_blanks(_)
strip_blanks(owner) ==
    IF owner = <<>> THEN <<>>
    ELSE IF Head(owner) = " " THEN strip_blanks(Tail(owner))
    ELSE IF owner[Len(owner)] = " " THEN strip_blanks(SubSeq(owner, 1, Len(owner) - 1))
    ELSE owner

endswith(owner, suffixes) == owner # <<>> /\ owner[Len(owner)] \in suffixes

without_last(owner) == SubSeq(owner, 1, Len(owner) - 1)

_normalize_owner(owner) ==
    IF owner = <<>> THEN <<>>
    ELSE LET normalized == strip_blanks(lower(owner))
             no_bot == IF endswith(normalized, {"[bot]"})
                       THEN without_last(normalized) ELSE normalized
         IN IF endswith(no_bot, {"-bot", "_bot", ".bot"})
            THEN without_last(no_bot) ELSE no_bot

NormIdle == [pc |-> "idle", owner |-> <<>>, once |-> <<>>, twice |-> <<>>]

NormInit ==
    norm \in { [NormIdle EXCEPT !.pc = "normalize", !.owner = x] : x \in OwnerStrings }

\* normalize(x)
NormOnce ==
    /\ norm.pc = "normalize"
    /\ norm' = [norm EXCEPT !.pc = "again", !.once = _normalize_owner(norm.owner)]
    /\ UNCHANGED others_norm

\* normalize(normalize(x))
NormTwice ==
    /\ norm.pc = "again"
    /\ norm' = [norm EXCEPT !.pc = "done", !.twice = _normalize_owner(norm.once)]
    /\ UNCHANGED others_norm

NormNext == NormOnce \/ NormTwice

(***************************************************************************)
(* gerrit/comparator.py: GerritChangeComparator.compare_gerrit_changes.    *)
(* A score is a whole number of 1/One, so that the scores the code         *)
(* computes (0.1, 0.5, 0.95, 14/25, 22/29, ...) and their mean are exact.  *)
(***************************************************************************)
One == 58000

similarity_threshold == (4 * One) \div 5

Packages == {"requests", "pydantic"}

\* "Bump <package> from 1.0.0 to 2.0.0" and "Update dependency <package> to
\* 2.0.0": two phrasings of a dependency update.
Subjects ==
    { [verb |-> "bump", package |-> p, has_from |-> TRUE] : p \in Packages }
    \cup { [verb |-> "update dependency", package |-> p, has_from |-> FALSE] :
            p \in Packages }

Messages ==
    { [kind |-> "absent", package |-> ""], [kind |-> "short", package |-> ""] }
    \cup { [kind |-> "dependabot", package |-> p] : p \in Packages }

FileSets ==
    { {}, {"requirements.txt"}, {"Requirements.txt"},
      {".github/workflows/ci.yml"}, {".github/workflows/build.yml"} }

ChangeOwners == { <<"dependabot", "[bot]">>, <<"dependabot">>, <<"alice">> }

ComparedChanges ==
    [owner : ChangeOwners, subject : Subjects, message : Messages,
     files_changed : FileSets]

\* An automation indicator ("dependabot", "bot", ...) occurs in the subject,
\* the message or the owner; none of the subjects matches a commit pattern.
_is_automation_change(change) ==
    \/ \E i \in 1..Len(change.owner) :
          change.owner[i] \in {"dependabot", "[bot]", "-bot", "_bot", ".bot"}
    \/ change.message.kind = "dependabot"

_compare_owners(source, target) ==
    IF _normalize_owner(source.owner) = _normalize_owner(target.owner)
    THEN One ELSE 0

\* The patterns want "bump|update|upgrade <name> from": the word after the
\* verb is the package, and "from" must follow it.
_extract_package_name(subject) ==
    IF subject.verb \in {"bump", "update", "upgrade"} /\ subject.has_from
    THEN subject.package ELSE ""

\* len(_normalize_subject(subject)): the versions are removed.
normalized_length(subject) ==
    Len(subject.verb) + 1 + Len(subject.package)
    + (IF subject.has_from THEN 5 ELSE 0) + 3

\* The characters in SequenceMatcher's matching blocks of the two normalized
\* subjects.
matching_characters(a, b) ==
    CASE a = b -> normalized_length(a)
      [] a # b /\ a.verb = b.verb /\ a.has_from -> 14
      [] a # b /\ a.verb = b.verb /\ ~a.has_from -> 22
      [] a.verb # b.verb /\ a.package = b.package -> 14
      [] a.verb # b.verb /\ a.package # b.package ->
            CASE a.verb = "bump" -> 9
              [] a.package = "requests" -> 10
              [] OTHER -> 7

\* SequenceMatcher(None, a, b).ratio() = 2.0 * matches / length
ratio(a, b) ==
    (2 * matching_characters(a, b) * One)
    \div (normalized_length(a) + normalized_length(b))

\* Mutant of _compare_subjects: the subjects are always compared by ratio.
_compare_subjects_by_ratio(subject1, subject2) == ratio(subject1, subject2)

_compare_subjects(subject1, subject2) ==
    LET package1 == _extract_package_name(subject1)
        package2 == _extract_package_name(subject2)
    IN IF package1 # "" /\ package2 # ""
       THEN (IF package1 = package2 THEN One ELSE 0)
       ELSE ratio(subject1, subject2)

\* Both messages are long and Dependabot's, or one is short and they are
\* compared for equality.
_compare_messages(message1, message2) ==
    IF message1.kind = "absent" \/ message2.kind = "absent" THEN 0
    ELSE IF message1.kind = "short" \/ message2.kind = "short"
         THEN (IF message1 = message2 THEN One ELSE 0)
    ELSE IF message1.package = message2.package THEN (95 * One) \div 100
    ELSE (10 * One) \div 100

_normalize_filename(filename) ==
    IF filename = "Requirements.txt" THEN "requirements.txt" ELSE filename

is_workflow(filename) ==
    filename \in {".github/workflows/ci.yml", ".github/workflows/build.yml"}

_compare_files(source, target) ==
    IF source.files_changed = {} \/ target.files_changed = {} THEN 0
    ELSE LET source_files == { _normalize_filename(f) : f \in source.files_changed }
             target_files == { _normalize_filename(f) : f \in target.files_changed }
             base_score ==
                 (Cardinality(source_files \cap target_files) * One)
                 \div Cardinality(source_files \cup target_files)
         IN IF (\E f \in source_files : is_workflow(f))
               /\ (\E f \in target_files : is_workflow(f))
               /\ base_score < One \div 2
            THEN One \div 2 ELSE base_score

RECURSIVE sum(_)
sum(scores) == IF scores = <<>> THEN 0 ELSE Head(scores) + sum(Tail(scores))

\* GerritComparisonResult.not_similar()
not_similar == [is_similar |-> FALSE, confidence_score |-> 0]

CmpIdle ==
    [pc |-> "idle", only_automation |-> TRUE, scores |-> <<>>,
     source |-> [owner |-> <<>>, subject |-> [verb |-> "", package |-> "", has_from |-> FALSE],
                 message |-> [kind |-> "absent", package |-> ""], files_changed |-> {}],
     target |-> [owner |-> <<>>, subject |-> [verb |-> "", package |-> "", has_from |-> FALSE],
                 message |-> [kind |-> "absent", package |-> ""], files_changed |-> {}],
     result |-> not_similar]

CmpInit ==
    cmp \in { [CmpIdle EXCEPT !.pc = "compare", !.source = a, !.target = b,
                              !.only_automation = o] :
              a \in ComparedChanges, b \in ComparedChanges, o \in BOOLEAN }

\* compare_gerrit_changes(source, target, only_automation)
CmpCompare ==
    /\ cmp.pc = "compare"
    /\ IF cmp.only_automation
          /\ (~_is_automation_change(cmp.source) \/ ~_is_automation_change(cmp.target))
       THEN cmp' = [cmp EXCEPT !.pc = "done", !.result = not_similar]
       ELSE LET scores == << _compare_owners(cmp.source, cmp.target),
                             _compare_subjects(cmp.source.subject, cmp.target.subject),
                             _compare_messages(cmp.source.message, cmp.target.message),
                             _compare_files(cmp.source, cmp.target) >>
                confidence_score == sum(scores) \div Len(scores)
            IN cmp' = [cmp EXCEPT
                         !.pc = "done",
                         !.scores = scores,
                         !.result = IF confidence_score >= similarity_threshold
                                    THEN [is_similar |-> TRUE,
                                          confidence_score |-> confidence_score]
                                    ELSE not_similar]
    /\ UNCHANGED others_cmp

CmpNext == CmpCompare

\* Every component but the named ones is idle: a specification runs one
\* component (and the client it calls) and keeps the others in their idle
\* state.
IdleBut(components) ==
    /\ (IF "client" \in components THEN TRUE ELSE client = ClientIdle)
    /\ (IF "gh" \in components THEN TRUE ELSE gh = GhIdle)
    /\ (IF "sm" \in components THEN TRUE ELSE sm = SmIdle)
    /\ (IF "ghc" \in components THEN TRUE ELSE ghc = GhcIdle)
    /\ (IF "mm" \in components THEN TRUE ELSE mm = MmIdle)
    /\ (IF "rebase" \in components THEN TRUE ELSE rebase = RebaseIdle)
    /\ (IF "query" \in components THEN TRUE ELSE query = QueryIdle)
    /\ (IF "similar" \in components THEN TRUE ELSE similar = SimilarIdle)
    /\ (IF "urls" \in components THEN TRUE ELSE urls = UrlsIdle)
    /\ (IF "analysis" \in components THEN TRUE ELSE analysis = AnalysisIdle)
    /\ (IF "scan" \in components THEN TRUE ELSE scan = ScanIdle)
    /\ (IF "api" \in components THEN TRUE ELSE api = ApiIdle)
    /\ (IF "norm" \in components THEN TRUE ELSE norm = NormIdle)
    /\ (IF "cmp" \in components THEN TRUE ELSE cmp = CmpIdle)

InitMergeManager == MmInit /\ IdleBut({"mm"})

SpecMergeManager == InitMergeManager /\ [][MmNext]_vars

InitClient == ClientInit /\ IdleBut({"client"})

SpecClient == InitClient /\ [][ClientNext]_vars

InitRebase == RebaseInit /\ IdleBut({"client", "rebase"})

SpecRebase == InitRebase /\ [][RebaseNext]_vars

InitQuery == QueryInit /\ IdleBut({"query"})

SpecQuery == InitQuery /\ [][QueryNext]_vars

InitQueryServer == QueryServerInit /\ IdleBut({"query"})

SpecQueryServer == InitQueryServer /\ [][QueryNext]_vars

InitSimilar == SimilarInit /\ IdleBut({"similar"})

SpecSimilar == InitSimilar /\ [][SimilarNext]_vars

InitUrls == UrlsInit /\ IdleBut({"urls"})

SpecUrls == InitUrls /\ [][UrlsNext]_vars

InitAnalysis == AnalysisInit /\ IdleBut({"analysis"})

SpecAnalysis == InitAnalysis /\ [][AnalysisNext]_vars

InitScan == ScanInit /\ IdleBut({"scan"})

SpecScan == InitScan /\ [][ScanNext]_vars

InitApi == ApiInit /\ IdleBut({"api"})

SpecApi == InitApi /\ [][ApiNext]_vars

InitNorm == NormInit /\ IdleBut({"norm"})

SpecNorm == InitNorm /\ [][NormNext]_vars

InitCmp == CmpInit /\ IdleBut({"cmp"})

SpecCmp == InitCmp /\ [][CmpNext]_vars

InitClientBackoff == ClientInitBackoff /\ IdleBut({"client"})

SpecClientBackoff == InitClientBackoff /\ [][ClientNext]_vars

InitMerge == GhInit /\ IdleBut({"gh"})

SpecMerge == InitMerge /\ [][MergeNext]_vars

InitMergeOverride == GhInitOverride /\ IdleBut({"gh"})

SpecMergeOverride == InitMergeOverride /\ [][MergeNext]_vars

InitMergeLog == GhInitLog /\ IdleBut({"gh"})

SpecMergeLog == InitMergeLog /\ [][MergeNext]_vars

InitSubmit == SmInit /\ IdleBut({"sm"})

InitGitHubClient == GhcInit /\ IdleBut({"ghc"})

SpecGitHubClient == InitGitHubClient /\ [][GhcNext]_vars

SpecSubmit == InitSubmit /\ [][SubmitNext]_vars

\* A run is a merge run of the command line or a call of the submit manager.
InitMergeOrSubmit == InitMergeLog \/ InitSubmit

SpecMergeOrSubmit == InitMergeOrSubmit /\ [][MergeNext \/ SubmitNext]_vars

(***************************************************************************)
(* Claims about the Gerrit REST client (SpecClient).                       *)
(***************************************************************************)
ClientDone == client.pc \in {"returned", "raised"}

IsRetryableHttp(o) == o.kind = "http" /\ o.status \in _RETRYABLE_HTTP_CODES

Is5xx(o) == o.kind = "http" /\ o.status >= 500

IsTransientNet(o) == o.kind = "net" /\ o.text \in _TRANSIENT_ERR_SUBSTRINGS

LastOutcome == client.trace[Len(client.trace)]

\* C1: a call never makes more than max_attempts attempts; when every attempt
\* failed with a retryable HTTP status (429, 500, 502, 503, 504) the call made
\* exactly max_attempts attempts and max_attempts-1 backoff sleeps and raised
\* GerritRestError.
C1_AttemptsBoundedAndExhausted ==
    /\ Len(client.trace) <= client.max_attempts
    /\ ( /\ ClientDone
         /\ Len(client.trace) >= 1
         /\ \A i \in 1..Len(client.trace) : IsRetryableHttp(client.trace[i]) )
       => /\ Len(client.trace) = client.max_attempts
          /\ Len(client.sleeps) = client.max_attempts - 1
          /\ client.pc = "raised"
          /\ client.exc.cls = "GerritRestError"

\* C2: an attempt answered with HTTP 401, 403 or 404 is the last one: nothing
\* is slept and nothing is sent after it, and the call raises GerritAuthError
\* (401, 403) or GerritNotFoundError (404).
C2_AuthAndNotFoundRaisedAtOnce ==
    \A i \in 1..Len(client.trace) :
        (client.trace[i].kind = "http" /\ client.trace[i].status \in {401, 403, 404})
        => /\ i = Len(client.trace)
           /\ Len(client.sleeps) = i - 1
           /\ client.pc = "raised"
           /\ client.exc.cls = IF client.trace[i].status = 404
                               THEN "GerritNotFoundError"
                               ELSE "GerritAuthError"

\* C36: the typed error raised for a failed request matches the server's
\* HTTP status on both transports: GerritAuthError is raised only for a 401
\* or 403 response, GerritNotFoundError only for a 404 response, and a
\* status_code carried by the error is the status of the response.
C36_TypedErrorMatchesStatus ==
    (client.pc = "raised" /\ Len(client.trace) >= 1) =>
        LET o == client.trace[Len(client.trace)] IN
        /\ client.exc.cls = "GerritAuthError"
             => (o.kind = "http" /\ o.status \in {401, 403})
        /\ client.exc.cls = "GerritNotFoundError"
             => (o.kind = "http" /\ o.status = 404)
        /\ client.exc.status_code # NoStatus
             => (o.kind = "http" /\ o.status = client.exc.status_code)

\* C3: HTTP 5xx is retried on every request path: a call whose attempts so far
\* all failed with HTTP 5xx gives up only when max_attempts attempts were made,
\* and a call whose N failures with 5xx (N < max_attempts) are followed by a
\* success made N+1 attempts and returned.
C3_Http5xxRetriedOnEveryPath ==
    /\ ( /\ client.pc = "raised"
         /\ Len(client.trace) >= 1
         /\ \A i \in 1..Len(client.trace) : Is5xx(client.trace[i]) )
       => Len(client.trace) = client.max_attempts
    /\ ( /\ ClientDone
         /\ Len(client.trace) >= 1
         /\ LastOutcome.kind = "ok"
         /\ \A i \in 1..(Len(client.trace) - 1) : Is5xx(client.trace[i]) )
       => /\ client.pc = "returned"
          /\ Len(client.sleeps) = Len(client.trace) - 1

\* C4: a network-level failure whose text contains one of the transient
\* substrings is retried with backoff: the call raises on such a failure only
\* when max_attempts attempts were made.
C4_TransientNetworkErrorRetried ==
    ( /\ client.pc = "raised"
      /\ Len(client.trace) >= 1
      /\ IsTransientNet(LastOutcome) )
    => Len(client.trace) = client.max_attempts

\* C25: when a 429 response carries a Retry-After header, the sleep before the
\* next attempt is at least that long. The sleep is the pre-jitter delay plus
\* less than half of it, so it can reach Retry-After only if one and a half
\* times the delay does.
C25_RetryAfterHonoured ==
    \A i \in 1..Len(client.sleeps) :
        ( /\ client.log_trace
          /\ client.trace[i].status = 429
          /\ client.trace[i].retry_after # NoRetryAfter )
        => 3 * client.sleeps[i] >= 2 * client.trace[i].retry_after

(***************************************************************************)
(* Claims about rebase_change (SpecRebase).                                *)
(***************************************************************************)
\* The files each 409 body of the model lists after its conflict marker.
ListedConflictFiles(body) ==
    CASE Len(body) = 6 -> <<"src/a.py", "src/b.py">>
      [] Len(body) = 4 -> <<"src/a.py">>
      [] OTHER -> <<>>

\* C24: a rebase request answered with HTTP 409 is the last one sent (no sleep
\* and no attempt follows it), and rebase_change then returns a result with
\* success = False, conflict = True and the files listed in the response.
C24_ConflictNotRetriedAndReported ==
    \A i \in 1..Len(client.trace) :
        client.trace[i].status = 409
        => /\ i = Len(client.trace)
           /\ Len(client.sleeps) = i - 1
           /\ client.pc = "raised"
           /\ rebase.pc = "done"
              => /\ rebase.result.returned
                 /\ ~rebase.result.success
                 /\ rebase.result.conflict
                 /\ rebase.result.conflicting_files
                      = ListedConflictFiles(client.trace[i].body)

C24_Witness ==
    /\ rebase.pc = "done"
    /\ Len(client.trace) = 1
    /\ client.trace[1].status = 409
    /\ rebase.result.conflict
    /\ rebase.result.conflicting_files = <<"src/a.py", "src/b.py">>

(***************************************************************************)
(* Claims about _query_changes (SpecQuery).                                *)
(***************************************************************************)
\* C27: a change query never returns more than `limit` changes, and a request
\* that was followed by another one was answered with a page that was neither
\* empty nor shorter than requested.
C27_AtMostLimitAndStopsAtShortPage ==
    /\ query.returned <= query.limit
    /\ query.pc = "done" => query.returned <= query.all_changes
    /\ \A i \in 1..(Len(query.requests) - 1) :
          /\ query.requests[i].kind = "list"
          /\ query.requests[i].received > 0
          /\ query.requests[i].received >= query.requests[i].n

C27_Witness ==
    /\ query.pc = "done"
    /\ Len(query.requests) = 3
    /\ query.requests[3].received < query.requests[3].n
    /\ query.returned = query.limit - 1

(***************************************************************************)
(* Claims about _query_changes against a server that keeps to the query    *)
(* (SpecQueryServer). The changes are named by their position in the       *)
(* server's list.                                                          *)
(***************************************************************************)
\* page_changes of request r: the changes S+1 .. S+received in server order,
\* without the malformed one.
PageChanges(r) ==
    SelectSeq([k \in 1..r.received |-> r.S + k], LAMBDA c : c # query.server.bad)

RECURSIVE AllChanges(_)
AllChanges(n) ==
    IF n = 0 THEN <<>> ELSE AllChanges(n - 1) \o PageChanges(query.requests[n])

\* all_changes[:limit]
ReturnedChanges == SubSeq(AllChanges(Len(query.requests)), 1, query.returned)

\* The changes of the server's list that follow the offset.
Matching == IF query.server.N > query.offset
            THEN query.server.N - query.offset ELSE 0

\* C38: if no request fails, every item parses and the server's list does
\* not change, the query returns the first min(limit, N) of the N changes
\* that follow the offset, in server order, none twice and none skipped.
C38_ReturnsFirstChangesInOrder ==
    (query.pc = "done" /\ query.server.fixed /\ query.server.bad = NoBad)
    => ReturnedChanges
         = [k \in 1..Min(query.limit, Matching) |-> query.offset + k]

\* Three pages were needed: two full ones and the rest of the limit.
C38_Witness ==
    /\ query.pc = "done"
    /\ query.server.fixed /\ query.server.bad = NoBad
    /\ query.offset = 1
    /\ Len(query.requests) = 3
    /\ query.returned = 2 * MAX_PAGE_SIZE + 1
    /\ Matching > query.limit

\* C39: a malformed item is the only one skipped: every well-formed change
\* among the first `limit` changes that follow the offset is returned.
C39_OnlyMalformedItemSkipped ==
    (query.pc = "done" /\ query.server.fixed)
    => \A k \in 1..Min(query.limit, Matching) :
          (query.offset + k # query.server.bad)
          => \E i \in 1..Len(ReturnedChanges) :
                ReturnedChanges[i] = query.offset + k

(***************************************************************************)
(* Claims about find_similar_changes (SpecSimilar).                        *)
(***************************************************************************)
\* C28: every change in the list find_similar_changes builds and returns is a
\* change other than the source change, and the comparison of the source with
\* it returned a result with is_similar = True.
C28_ReturnedChangesAreSimilarOthers ==
    \A i \in 1..Len(similar.similar_changes) :
        LET pair == similar.similar_changes[i] IN
        /\ pair.change # similar.source_change
        /\ pair.result.is_similar
        /\ \E j \in 1..Len(similar.compared) :
              /\ similar.compared[j] = pair
              /\ ~similar.compared[j].result.raised

C28_Witness ==
    /\ similar.pc = "done"
    /\ \E k \in 1..Len(similar.all_changes) :
          similar.all_changes[k] = similar.source_change
    /\ Len(similar.all_changes) = 3
    /\ Len(similar.compared) = 2
    /\ Len(similar.similar_changes) = 1

(***************************************************************************)
(* Claims about discover_base_path (SpecUrls).                             *)
(***************************************************************************)
\* The circuit breaker of the host is open: at least 3 network failures are
\* recorded and fewer than 300 seconds have passed since the last one.
CircuitOpen ==
    /\ urls.in_breaker
    /\ urls.failure_count >= 3
    /\ urls.since_last_failure < 300

\* C29: no base-path probe request is sent to the host while its circuit
\* breaker is open: a step in which a call sends a probe starts in a state
\* where the breaker is not open.
C29_NoProbeWhileCircuitOpen ==
    [][(\E c \in Callers : urls'.calls[c].sent > urls.calls[c].sent)
         => ~CircuitOpen]_vars

\* C37: after the discovery for the host failed because of network errors
\* (failures are recorded, and no answered probe wrote the cache), a call of
\* discover_base_path that starts once the reset time of the circuit breaker
\* has passed since the last failure probes the host again.
C37_ProbesAgainAfterResetWindow ==
    [][\A c \in Callers :
         ( /\ urls.calls[c].pc = "idle"
           /\ urls'.calls[c].pc # "idle"
           /\ urls.cache_from # "probe"
           /\ urls.in_breaker
           /\ urls.failure_count >= 1
           /\ urls.since_last_failure >= _CIRCUIT_BREAKER_RESET_SECONDS )
         => urls'.calls[c].pc = "probing"]_vars

(***************************************************************************)
(* Claims about _analyze_pr_mergeability (SpecAnalysis).                   *)
(***************************************************************************)
\* Review i asks for changes and the same reviewer approved later.
Superseded(reviews, i) ==
    /\ reviews[i].state = "CHANGES_REQUESTED"
    /\ \E j \in (i + 1)..Len(reviews) :
          reviews[j].user = reviews[i].user /\ reviews[j].state = "APPROVED"

\* C30: a "changes requested" review superseded by a later approval of the same
\* reviewer is not reported as a blocking reason: when every review asking
\* for changes is superseded, the reasons hold no "blocked_review".
C30_SupersededReviewNotBlocking ==
    ( /\ analysis.pc = "done"
      /\ \A i \in 1..Len(analysis.pr.reviews) :
            analysis.pr.reviews[i].state = "CHANGES_REQUESTED"
            => Superseded(analysis.pr.reviews, i) )
    => \A k \in 1..Len(analysis.reasons) : analysis.reasons[k] # "blocked_review"

(***************************************************************************)
(* Claims about the organization scan (SpecScan).                          *)
(***************************************************************************)
\* C21: a failure while scanning one repository never stops the scan: when the
\* scan of a listed organization returns, every repository of the listing has
\* been visited, once and in order, whatever errors were recorded.
C21_EveryRepositoryVisited ==
    /\ scan.pc = "loop" => scan.visited = SubSeq(scan.repositories, 1, scan.idx - 1)
    /\ (scan.pc = "done" /\ scan.errors # <<"organization">>)
         => /\ scan.visited = scan.repositories
            /\ scan.scanned_repositories = scan.total_repositories

C21_Witness ==
    /\ scan.pc = "done"
    /\ Len(scan.repositories) >= 2
    /\ Len(scan.errors) >= 1
    /\ scan.errors[1] = scan.repositories[1]
    /\ scan.visited = scan.repositories

\* C22: every repository whose scan hit an API error or a malformed response
\* has an entry in the error list of the scan result.
C22_EveryFailedRepositoryReported ==
    scan.pc = "done"
    => \A repo \in scan.hit_error :
          \E i \in 1..Len(scan.errors) : scan.errors[i] = repo

(***************************************************************************)
(* Claims about the API client's concurrency bound (SpecApi).              *)
(***************************************************************************)
InFlight == {t \in Tasks : api.tasks[t].pc = "in_flight"}

\* C23: at every moment the number of in-flight requests of one API client is
\* at most max_concurrency, however many tasks issue requests through it.
C23_InFlightAtMostMaxConcurrency ==
    Cardinality(InFlight) <= api.max_concurrency

C23_Witness ==
    /\ Cardinality(InFlight) = api.max_concurrency
    /\ api.max_concurrency < MaxTasks
    /\ \E t \in Tasks : api.tasks[t].pc = "waiting" /\ api.tasks[t].attempt > 0

\* C31: a PR whose only blocking reason is being a draft does not appear in
\* the scan result (the scan has no include_drafts parameter: every scan is a
\* default one).
C31_DraftOnlyExcluded ==
    (analysis.pc = "scanned" /\ analysis.reasons = <<"draft">>)
    => analysis.unmergeable_prs = <<>>

(***************************************************************************)
(* Claims about owner normalization (SpecNorm).                            *)
(***************************************************************************)
\* C32: owner normalization is idempotent: normalize(normalize(x)) =
\* normalize(x) for every owner string x.
C32_NormalizeOwnerIdempotent ==
    norm.pc = "done" => norm.twice = norm.once

(***************************************************************************)
(* Claims about the comparison of two Gerrit changes (SpecCmp).            *)
(***************************************************************************)
\* C33 as stated: at the default threshold 0.8, two changes whose subjects
\* name different packages are never reported similar, whatever their
\* owners, messages and changed files.
C33_DifferentPackagesNeverSimilar ==
    (cmp.pc = "done" /\ cmp.source.subject.package # cmp.target.subject.package)
    => ~cmp.result.is_similar

\* C33 amended: at the default threshold 0.8, two changes from whose
\* subjects different package names are extracted are never reported
\* similar, whatever their owners, messages and changed files.
C33_DifferentExtractedPackagesNeverSimilar ==
    (/\ cmp.pc = "done"
     /\ _extract_package_name(cmp.source.subject) # ""
     /\ _extract_package_name(cmp.target.subject) # ""
     /\ _extract_package_name(cmp.source.subject)
          # _extract_package_name(cmp.target.subject))
    => ~cmp.result.is_similar

\* Two Dependabot changes of different packages that agree in owner,
\* message and files were compared: the scores are 1, 0, 1, 1.
C33_Witness ==
    /\ cmp.pc = "done"
    /\ _extract_package_name(cmp.source.subject) = "requests"
    /\ _extract_package_name(cmp.target.subject) = "pydantic"
    /\ cmp.scores = <<One, 0, One, One>>
    /\ ~cmp.result.is_similar

\* C34: whenever the automation gate passed, the confidence_score of the
\* returned result equals the arithmetic mean of the owner, subject,
\* message and file scores.
C34_ConfidenceIsMeanOfScores ==
    (cmp.pc = "done" /\ cmp.scores # <<>>)
    => /\ Len(cmp.scores) = 4
       /\ 4 * cmp.result.confidence_score = sum(cmp.scores)

(***************************************************************************)
(* Claims about long retry sequences (SpecClientBackoff).                  *)
(***************************************************************************)
\* C26 (as stated): within one request's retry sequence the pre-jitter delay
\* is strictly larger at each retry than at the retry before it.
C26_BackoffStrictlyIncreasing ==
    \A i \in 1..(Len(client.sleeps) - 1) : client.sleeps[i + 1] > client.sleeps[i]

\* C26 (amended): the pre-jitter delay never shrinks from one retry to the
\* next, and it is strictly larger than the delay before it as long as that
\* delay was below max_delay.
C26_BackoffIncreasingUpToMaxDelay ==
    \A i \in 1..(Len(client.sleeps) - 1) :
        /\ client.sleeps[i + 1] >= client.sleeps[i]
        /\ client.sleeps[i] < max_delay => client.sleeps[i + 1] > client.sleeps[i]

C26_Witness ==
    /\ Len(client.sleeps) >= 7
    /\ client.sleeps[1] < client.sleeps[2]
    /\ client.sleeps[6] = max_delay
    /\ client.sleeps[7] = max_delay

(***************************************************************************)
(* Claims about the merge command (SpecMerge).                             *)
(***************************************************************************)
MergeEnded == gh.pc \in {"done", "exit1"}

\* C5: the source PR is processed last: an approve, update-branch or merge
\* request for the source PR is sent only once the loop over the similar PRs
\* has finished (the run is in its source step, or ended after it).
C5_SourceProcessedLast ==
    gh.source_ops # {} => (gh.phase = "source" /\ gh.idx = 0)

C5_Witness ==
    /\ gh.pc = "done"
    /\ Len(gh.all_similar_prs) >= 2
    /\ "merge" \in gh.source_ops
    /\ gh.similar_failure = "merge_failed"

\* C6: in whatever way the processing of a similar PR failed (skipped as
\* unmergeable, approve failed, merge failed, or an exception of the platform
\* client), the run still called _merge_single_pr for the source PR before it
\* ended.
C6_SourceAttemptedAfterSimilarFailure ==
    (MergeEnded /\ gh.similar_failure # "none") => gh.source_attempted

\* C9: with --dry-run no approve, update-branch or merge request is sent for
\* any PR.
C9_DryRunSendsNothing ==
    gh.dry_run => gh.ops_called = {}

C9_Witness ==
    /\ gh.dry_run
    /\ gh.pc = "done"
    /\ Len(gh.all_similar_prs) >= 2

(***************************************************************************)
(* Claims about the GitHubClient methods (SpecGitHubClient).               *)
(***************************************************************************)
MergeReturned ==
    ghc.pc = "returned" /\ ghc.method = "merge_pull_request" /\ ghc.e.read = "ok"

\* C12: merge_pull_request never sends the merge request for a PR that it
\* reads as mergeable_state = draft, whatever the mergeable flag.
C12_DraftNeverMerged ==
    (MergeReturned /\ ghc.e.live.mergeable_state = "draft") => ~ghc.result.called

C12_Witness ==
    /\ MergeReturned
    /\ ghc.e.live = [mergeable |-> "True", mergeable_state |-> "draft"]
    /\ ghc.e.call = "merged"
    /\ ghc.result = ApiResult("False", FALSE)

\* C13: no merge request is sent for a PR whose mergeable_state is dirty,
\* whatever its mergeable flag (the client has no force level: none applies).
C13_DirtyNeverMerged ==
    (MergeReturned /\ ghc.e.live.mergeable_state = "dirty") => ~ghc.result.called

Calls == 1..Len(gh.pr_calls)

SentCall(i, op) == gh.pr_calls[i].op = op /\ gh.pr_calls[i].sent

MergeCalls == {i \in Calls : gh.pr_calls[i].op = "merge"}

\* The processing of the PR of pr_calls has ended.
PREnded == gh.pc \in {"done", "exit1"} \/ (gh.pc = "merging" /\ gh.step = "prefix")

\* C14: without --fix (and with no force level) a PR known to be behind its
\* base gets neither an update-branch request nor a merge request.
C14_BehindBlockedWithoutFix ==
    ( /\ gh.pc = "merging"
      /\ ~gh.fix
      /\ gh.attempt = 0
      /\ gh.pr_info.mergeable_state = "behind" )
    => \A i \in Calls : ~SentCall(i, "update_branch") /\ ~SentCall(i, "merge")

\* C15: after an update-branch request for a PR has failed, no merge request
\* is sent for that PR.
C15_NoMergeAfterFailedRebase ==
    \A i, j \in Calls :
        ( /\ i < j
          /\ SentCall(i, "update_branch")
          /\ gh.pr_calls[i].ret # "True" )
        => ~SentCall(j, "merge")

\* C16 as claimed: at most MAX_RETRIES merge requests are sent for one PR.
C16_AtMostMaxRetriesMergeCalls ==
    Cardinality({i \in Calls : SentCall(i, "merge")}) <= MAX_RETRIES

\* C16 as amended: merge_pull_request is called at most MAX_RETRIES + 1 times
\* for one PR: the first attempt and MAX_RETRIES retries.
C16_AtMostMaxRetriesPlusOneMergeCalls ==
    Cardinality(MergeCalls) <= MAX_RETRIES + 1

C16_Witness ==
    /\ gh.pc = "done"
    /\ Cardinality({i \in Calls : SentCall(i, "merge")}) = MAX_RETRIES + 1
    /\ Cardinality({i \in Calls : SentCall(i, "update_branch")}) = MAX_RETRIES
    /\ gh.pr_calls[Len(gh.pr_calls)].ret = "True"

\* C17: when the approve call of a PR has failed, the merge call for that PR
\* is still made afterwards.
C17_MergeAttemptedAfterFailedApprove ==
    PREnded =>
        \A i \in Calls :
            (gh.pr_calls[i].op = "approve" /\ gh.pr_calls[i].ret = "False")
            => \E j \in MergeCalls : j > i

(***************************************************************************)
(* Claims about the Gerrit submit manager (SpecSubmit).                    *)
(***************************************************************************)
Posts(i) == sm.tasks[i].review_posts + sm.tasks[i].submit_posts

NotSubmittable(change) == ~is_open(change) \/ change.work_in_progress

\* The change of call i is refused: no POST was sent for it, and once the
\* call has ended its result is a failure that is neither reviewed nor
\* submitted.
Refused(i) ==
    /\ Posts(i) = 0
    /\ sm.tasks[i].pc = "done" =>
         /\ ~sm.tasks[i].result.success
         /\ ~sm.tasks[i].result.reviewed
         /\ ~sm.tasks[i].result.submitted

\* C7: at no time are two submit attempts in flight for the same change
\* (change number), whatever the input list and the interleaving of the
\* executor's threads.
C7_OneAttemptInFlightPerChange ==
    \A i, j \in 1..Len(sm.tasks) :
        ( /\ i # j
          /\ TaskRunning(sm.tasks[i])
          /\ TaskRunning(sm.tasks[j]) )
        => sm.changes[i].number # sm.changes[j].number

\* C8: with dry_run=True submit_changes, submit_changes_parallel and
\* review_only send no POST for any change.
C8_DryRunSendsNoPost ==
    sm.dry_run => \A i \in 1..Len(sm.tasks) : Posts(i) = 0

C8_Witness ==
    /\ sm.dry_run
    /\ sm.pc = "returned"
    /\ sm.mode = "submit_changes_parallel"
    /\ Len(sm.results) >= 2
    /\ \A i \in 1..Len(sm.results) : sm.results[i].success

\* C10 as claimed: for every method of the manager, a change that is not
\* open or is Work In Progress gets no POST and a failure result.
C10_NotOpenOrWipNeverPosted ==
    \A i \in 1..Len(sm.tasks) : NotSubmittable(sm.changes[i]) => Refused(i)

\* C10 as amended: submit_changes and submit_changes_parallel send no POST for
\* a change that is not open or is Work In Progress, and its result is a
\* failure; review_only makes no such check.
C10_NotOpenOrWipNeverSubmitted ==
    sm.mode # "review_only" =>
        \A i \in 1..Len(sm.tasks) : NotSubmittable(sm.changes[i]) => Refused(i)

C10_Witness ==
    /\ sm.mode = "submit_changes"
    /\ ~sm.dry_run
    /\ sm.pc = "returned"
    /\ Len(sm.changes) >= 2
    /\ sm.changes[1].status = "NEW" /\ sm.changes[1].work_in_progress
    /\ sm.changes[2].status = "MERGED"
    /\ ~sm.results[1].success /\ ~sm.results[2].success

\* C19: in submit_changes, which takes the changes one after the other, an
\* authentication failure (401/403) on one change ends the run: no review or
\* submit POST is sent for the changes after it.
C19_AuthFailureAbortsBatch ==
    sm.mode = "submit_changes" =>
        \A i, j \in 1..Len(sm.tasks) :
            (i < j /\ sm.tasks[i].auth_failed) => Posts(j) = 0

\* C20: submit_changes and submit_changes_parallel return one result per
\* input change, at the index of that change and with its number, whatever
\* the other changes of the batch did.
C20_OneResultPerChangeInOrder ==
    (sm.pc = "returned" /\ sm.mode # "review_only") =>
        /\ Len(sm.results) = Len(sm.changes)
        /\ \A i \in 1..Len(sm.changes) :
              sm.results[i].change_number = sm.changes[i].number

C20_Witness ==
    /\ sm.pc = "returned"
    /\ sm.mode = "submit_changes_parallel"
    /\ ~sm.dry_run
    /\ Len(sm.changes) >= 2
    /\ sm.changes[1].number # sm.changes[2].number
    /\ ~sm.results[1].success /\ sm.tasks[1].auth_failed
    /\ sm.results[2].success /\ sm.results[2].submitted

\* C40: every GerritSubmitResult the submit manager produces has
\* submitted = true only with reviewed = true, and success = false only
\* with submitted = false.
C40_SubmittedImpliesReviewedAndSuccess ==
    /\ \A i \in 1..Len(sm.tasks) :
          sm.tasks[i].pc = "done"
          => /\ sm.tasks[i].result.submitted => sm.tasks[i].result.reviewed
             /\ ~sm.tasks[i].result.success => ~sm.tasks[i].result.submitted
    /\ \A i \in 1..Len(sm.results) :
          /\ sm.results[i].submitted => sm.results[i].reviewed
          /\ ~sm.results[i].success => ~sm.results[i].submitted

\* One change was reviewed and submitted; for another the review was
\* applied and the submit POST failed.
C40_Witness ==
    /\ sm.pc = "returned"
    /\ ~sm.dry_run
    /\ Len(sm.results) = 2
    /\ sm.results[1].success /\ sm.results[1].reviewed /\ sm.results[1].submitted
    /\ ~sm.results[2].success /\ sm.results[2].reviewed /\ ~sm.results[2].submitted
    /\ sm.tasks[2].submit_posts = 1

(***************************************************************************)
(* Claims about both platforms (SpecMergeOrSubmit).                        *)
(***************************************************************************)
\* C35: a submit POST for a Gerrit change is sent only after a review POST
\* of the same call for that change succeeded, and a merge call for a PR is
\* made only after an approve call for that PR returned True.
C35_SubmitAfterReviewAndMergeAfterApprove ==
    /\ \A i \in 1..Len(sm.tasks) :
          (sm.tasks[i].pc = "submit" \/ sm.tasks[i].submit_posts > 0)
          => /\ sm.tasks[i].reviewed
             /\ sm.tasks[i].review_posts > 0
    /\ \A j \in MergeCalls :
          \E i \in Calls :
              i < j /\ gh.pr_calls[i].op = "approve" /\ gh.pr_calls[i].ret = "True"

\* A change was reviewed and then submitted, both POSTs succeeding.
C35_Witness ==
    /\ sm.pc = "returned"
    /\ \E i \in 1..Len(sm.results) :
          /\ sm.tasks[i].review_posts = 1
          /\ sm.tasks[i].submit_posts = 1
          /\ sm.results[i].success
          /\ sm.results[i].submitted

(***************************************************************************)
(* Claims about the requirement check (SpecMergeManager).                  *)
(***************************************************************************)
\* The change is blocked by nothing but a code-owner requirement.
OnlyCodeOwnerRequired(change) ==
    /\ change.code_owner_required
    /\ ~change.draft /\ ~change.changes_requested /\ ~change.dirty
    /\ ~change.behind /\ ~change.protection_required /\ ~change.failing_checks

\* C18: for a fixed change state, a change that the requirement check lets
\* proceed at one force level proceeds at every higher level; a change
\* blocked only by a code-owner requirement is blocked at none and proceeds
\* at code_owners and above.
C18_ForceLevelMonotone ==
    /\ \A k, l \in 1..Len(mm.results) :
          (k < l /\ mm.results[k].can_proceed) => mm.results[l].can_proceed
    /\ (mm.pc = "done" /\ OnlyCodeOwnerRequired(mm.change)) =>
          /\ ~mm.results[1].can_proceed
          /\ \A l \in 2..Len(ForceLevels) : mm.results[l].can_proceed

C18_Witness ==
    /\ mm.pc = "done"
    /\ OnlyCodeOwnerRequired(mm.change)
    /\ ~mm.fix_out_of_date
    /\ mm.results[1] = CheckResult(FALSE, "code owner reviews are required")
    /\ mm.results[4] = CheckResult(TRUE, "ok")

====
